---- MODULE Spec2Model ----
(***************************************************************************)
(* Admission control, concurrency gate, quota ledger and cache hierarchy   *)
(* of moral-compass-ai, modelled from the TypeScript sources.              *)
(*                                                                         *)
(* The module holds one state space and several specifications over it,    *)
(* one per component, so that each component is explored in depth:         *)
(*   SpecQueue   - the three fastq worker pools (requestQueue)             *)
(*   SpecQuota   - the request-count limiters (rateLimit) and the cost     *)
(*                 ledger (costTracking) used by one request at a time     *)
(*   SpecCostRace- the cost ledger under concurrent calls                  *)
(*   SpecCache   - the exact / semantic / partial cache (caching)           *)
(*   SpecRequest - one request through POST /api/decision                  *)
(*   SpecWorker  - the tasks of one pool under createWorker                *)
(*   SpecLedger, SpecAdmit - one client's reserve / commit pairs and       *)
(*                 admissions                                              *)
(*   SpecDrain   - shutdownQueues while tasks are in flight                *)
(*   SpecEmbed   - the embedding memo of getCachedEmbedding                *)
(*   SpecReset   - the lazy resets of the ledger and the limiters          *)
(***************************************************************************)
EXTENDS Integers, Sequences, FiniteSets, TLC

VARIABLES
  \* ---- configuration ----
  redis,       \* the store is configured (makeRedis() returned a client)
  \* ---- concurrency gate (src/lib/requestQueue) ----
  qLen,        \* pool -> fastq length(): tasks waiting in the live instance
  qRunning,    \* pool -> fastq running(): workers in flight on the live instance
  qOrphans,    \* pool -> workers still in flight on instances that were killed
  qZombies,    \* pool -> operations still executing after their timeout fired
  qLost,       \* pool -> submissions whose push promise can no longer resolve
  submitted,   \* number of submissions made so far
  \* ---- wall clock ----
  clock,       \* [mo, day, hr, ms]: calendar month, day, hour, ms within the hour;
               \* the runs modelled stay within one month
  \* ---- cost ledger (src/lib/costTracking) ----
  ledger,      \* the Redis hash cost:<clientId> of the one client, or NoData
  pc,          \* process -> where it stands in checkCostLimits / recordCost
  costData,    \* process -> its local copy of the hash (UserCostData)
  amount,      \* process -> the estimatedCost / actualCost argument of its call
  costResult,  \* the CostLimitResult the last checkCostLimits returned
  recorded,    \* sum of the amounts recordCost wrote, per family, this window
  committed,   \* sum of the amounts recordCost was called with, likewise
  records,     \* number of recordCost calls made so far
  dirty,       \* a window boundary passed while a ledger call was in progress
  \* ---- request-count limiters (src/lib/rateLimit) ----
  limiter,     \* tier -> the in-memory record {count, resetAt} of the client
  rateResult,  \* the MultiTierLimitResult of the last checkMultiTierLimits
  tierSuccess, \* tier -> success of that tier's limiter in the last call
  winCalls,    \* calls made since the per-minute window of the client opened
  \* ---- cache hierarchy (src/lib/caching, src/lib/agentCache) ----
  store,       \* key -> the entry the store holds for it, or NoEntry
  others,      \* number of semantic keys of inputs that are not modelled
  cacheOp,     \* the last cache call: its kind, arguments and time
  cacheResult, \* the SemanticCacheResult of the last lookup, with the levels probed
  cacheOps,    \* number of cache calls made so far
  memo,        \* input -> the embedding the store holds for its digest, or NoMemo
  embedded,    \* the last call of getCachedEmbedding made on its own
  \* ---- one request through POST /api/decision ----
  req,         \* where the request stands, and what it has done so far
  \* ---- the tasks of one pool (createWorker under fastq) ----
  wPool,       \* the pool the tasks are submitted to
  wNow,        \* Date.now() in whole seconds
  wTasks,      \* task -> its state, times, operation and QueueResult
  wQueue,      \* the tasks waiting in fastq, in order
  wReturned,   \* number of workers that have returned
  \* ---- one client's reserve / commit pairs ----
  session,     \* the estimate reserved last, whether a commit exceeded one, and
               \* the requests past their overload check and not yet submitted,
               \* and the getCacheEntry call between its get and its setex
  \* ---- drain mode (shutdownQueues) ----
  shut         \* the drain handler of each pool and the calls that wait on it

queueVars == <<qLen, qRunning, qOrphans, qZombies, qLost, submitted>>

costVars == <<ledger, pc, costData, amount, costResult, recorded, committed,
             records, dirty>>

rateVars == <<limiter, rateResult, tierSuccess, winCalls>>

cacheVars == <<store, others, cacheOp, cacheResult, cacheOps, memo, embedded>>

vars == <<redis, qLen, qRunning, qOrphans, qZombies, qLost, submitted, clock,
          ledger, pc, costData, amount, costResult, recorded, committed,
          records, dirty,
          limiter, rateResult, tierSuccess, winCalls,
          store, others, cacheOp, cacheResult, cacheOps, memo, embedded, req,
          wPool, wNow, wTasks, wQueue, wReturned, session, shut>>

workerVars == <<wPool, wNow, wTasks, wQueue, wReturned>>

\* what the actions of one component leave alone
notQueue == <<redis, clock, costVars, rateVars, cacheVars, req, workerVars, session>>
notCost == <<redis, clock, queueVars, rateVars, cacheVars, req, workerVars, session, shut>>
notRate == <<redis, clock, queueVars, costVars, cacheVars, req, workerVars, session, shut>>
notCache == <<redis, clock, queueVars, costVars, rateVars, req, workerVars, session, shut>>
notWorker == <<redis, clock, queueVars, costVars, rateVars, cacheVars, req, session, shut>>
notClock == <<redis, queueVars, rateVars, cacheVars, req, workerVars, session, shut>>

(***************************************************************************)
(* Concurrency gate                                                        *)
(***************************************************************************)
MaxTasks == 7

Pools == {"decision", "pdf", "vector"}

DECISION_QUEUE_CONCURRENCY == 3
PDF_QUEUE_CONCURRENCY == 1
VECTOR_QUEUE_CONCURRENCY == 5

DECISION_QUEUE_INTERVAL_CAP == 10
PDF_QUEUE_INTERVAL_CAP == 5
VECTOR_QUEUE_INTERVAL_CAP == 20

\* QUEUE_CONFIG.<pool>.concurrency, the second argument of fastq.promise
Concurrency(p) ==
  CASE p = "decision" -> DECISION_QUEUE_CONCURRENCY
    [] p = "pdf"      -> PDF_QUEUE_CONCURRENCY
    [] p = "vector"   -> VECTOR_QUEUE_CONCURRENCY

IntervalCap(p) ==
  CASE p = "decision" -> DECISION_QUEUE_INTERVAL_CAP
    [] p = "pdf"      -> PDF_QUEUE_INTERVAL_CAP
    [] p = "vector"   -> VECTOR_QUEUE_INTERVAL_CAP

\* what createWorker resolves with: the operation's value, the operation's
\* error, or the timeout timer winning the race against the operation
WorkerOutcomes == {"success", "error", "timeout"}

\* mutant of StartsNow: the pool starts a task whatever is already running
StartsNowNoCap(p) == TRUE

\* fastq push: the worker is called at once unless running >= concurrency
StartsNow(p) == qRunning[p] < Concurrency(p)

\* the calls of shutdownQueues that are modelled
Callers == {1, 2}

\* fastq idle(): nothing running and nothing waiting
Idle(p) == qRunning[p] = 0 /\ qLen[p] = 0

\* queue.drain of each live instance (0: fastq's noop, c: the resolve of the
\* pool promise of call c), the pool promises each call still waits for, and
\* where each call stands
NoShutdown ==
  [handler |-> [p \in Pools |-> 0],
   waiting |-> [c \in Callers |-> {}],
   st |-> [c \in Callers |-> "idle"]]

InitQueue ==
  /\ shut = NoShutdown
  /\ qLen = [p \in Pools |-> 0]
  /\ qRunning = [p \in Pools |-> 0]
  /\ qOrphans = [p \in Pools |-> 0]
  /\ qZombies = [p \in Pools |-> 0]
  /\ qLost = [p \in Pools |-> 0]
  /\ submitted = 0

\* queueDecisionOperation / queuePdfOperation / queueVectorOperation:
\* build the task and push it on the pool's queue
QueueOperationCore(p) ==
  /\ submitted' = submitted + 1
  /\ IF StartsNow(p)
       THEN /\ qRunning' = [qRunning EXCEPT ![p] = @ + 1]
            /\ UNCHANGED qLen
       ELSE /\ qLen' = [qLen EXCEPT ![p] = @ + 1]
            /\ UNCHANGED qRunning
  /\ UNCHANGED <<qOrphans, qZombies, qLost>>

\* a submission made on its own
QueueOperation(p) ==
  /\ submitted < MaxTasks
  /\ QueueOperationCore(p)
  /\ UNCHANGED shut
  /\ UNCHANGED notQueue

\* createWorker returns for a task of the live instance (the operation
\* settled, or the timer fired and the operation goes on alone); fastq's
\* release hands the slot to the head of the queue, or gives the slot back
WorkerReturnsCore(p, outcome) ==
  /\ qRunning[p] > 0
  /\ IF qLen[p] > 0
       THEN /\ qLen' = [qLen EXCEPT ![p] = @ - 1]
            /\ UNCHANGED qRunning
       ELSE /\ qRunning' = [qRunning EXCEPT ![p] = @ - 1]
            /\ UNCHANGED qLen
  /\ qZombies' = [qZombies EXCEPT ![p] = IF outcome = "timeout" THEN @ + 1 ELSE @]
  /\ UNCHANGED <<qOrphans, qLost, submitted>>

\* fastq release with nothing left in the pool: self.drain() is called; the
\* resolve stored there settles the pool promise of its call, and the call
\* returns from its Promise.all when that was the last one it waited for
Drained(sh, p) ==
  LET c == sh.handler[p]
  IN IF c = 0 THEN sh
     ELSE LET w == sh.waiting[c] \ {p}
          IN [sh EXCEPT !.waiting[c] = w,
                        !.st[c] = IF w = {} /\ sh.st[c] = "waiting"
                                    THEN "resolved" ELSE sh.st[c]]

\* a worker returning on its own; the pool's handler is called when the
\* worker was the last one of the pool
WorkerReturns(p, outcome) ==
  /\ WorkerReturnsCore(p, outcome)
  /\ shut' = IF qRunning'[p] = 0 THEN Drained(shut, p) ELSE shut
  /\ UNCHANGED notQueue

\* shutdownQueues(): one promise per pool, resolved at once when the pool is
\* idle and otherwise handed to the pool as its drain handler, in place of
\* the handler that was there; the call returns when all three are resolved
ShutdownQueues(c) ==
  /\ shut.st[c] = "idle"
  /\ LET busy == {p \in Pools : ~Idle(p)}
     IN shut' = [handler |-> [p \in Pools |-> IF p \in busy THEN c
                                              ELSE shut.handler[p]],
                 waiting |-> [shut.waiting EXCEPT ![c] = busy],
                 st |-> [shut.st EXCEPT ![c] = IF busy = {} THEN "resolved"
                                                ELSE "waiting"]]
  /\ UNCHANGED queueVars
  /\ UNCHANGED notQueue

\* createWorker returns for a task whose instance was killed: the release
\* acts on the dead instance and leaves the live one alone
OrphanReturns(p, outcome) ==
  /\ qOrphans[p] > 0
  /\ qOrphans' = [qOrphans EXCEPT ![p] = @ - 1]
  /\ qZombies' = [qZombies EXCEPT ![p] = IF outcome = "timeout" THEN @ + 1 ELSE @]
  /\ UNCHANGED <<qLen, qRunning, qLost, submitted>>
  /\ UNCHANGED shut
  /\ UNCHANGED notQueue

\* the operation of a timed-out task settles after the timer won the race
LateSettle(p) ==
  /\ qZombies[p] > 0
  /\ qZombies' = [qZombies EXCEPT ![p] = @ - 1]
  /\ UNCHANGED <<qLen, qRunning, qOrphans, qLost, submitted>>
  /\ UNCHANGED shut
  /\ UNCHANGED notQueue

\* mutant of ClearAllQueues: the fresh instances inherit the workers in
\* flight
ClearAllQueuesKeepsRunning ==
  /\ \E p \in Pools : qLen[p] + qRunning[p] > 0
  /\ qLost' = [p \in Pools |-> qLost[p] + qLen[p]]
  /\ qLen' = [p \in Pools |-> 0]
  /\ shut' = [shut EXCEPT !.handler = [p \in Pools |-> 0]]
  /\ UNCHANGED <<qRunning, qOrphans, qZombies, submitted>>
  /\ UNCHANGED notQueue

\* clearAllQueues: kill() drops the waiting tasks and the instances are
\* replaced by fresh ones, whose drain is fastq's noop; workers in flight go
\* on, on the dead instances
ClearAllQueues ==
  /\ \E p \in Pools : qLen[p] + qRunning[p] > 0
  /\ qLost' = [p \in Pools |-> qLost[p] + qLen[p]]
  /\ qOrphans' = [p \in Pools |-> qOrphans[p] + qRunning[p]]
  /\ qLen' = [p \in Pools |-> 0]
  /\ qRunning' = [p \in Pools |-> 0]
  /\ shut' = [shut EXCEPT !.handler = [p \in Pools |-> 0]]
  /\ UNCHANGED <<qZombies, submitted>>
  /\ UNCHANGED notQueue

NextQueue ==
  \/ \E p \in Pools : QueueOperation(p)
  \/ \E p \in Pools, o \in WorkerOutcomes : WorkerReturns(p, o)
  \/ \E p \in Pools, o \in WorkerOutcomes : OrphanReturns(p, o)
  \/ \E p \in Pools : LateSettle(p)
  \/ ClearAllQueues

MaxDrainTasks == 4

\* the pools in drain mode: submissions, workers returning and calls of
\* shutdownQueues
NextDrain ==
  \/ \E p \in Pools : submitted < MaxDrainTasks /\ QueueOperation(p)
  \/ \E p \in Pools, o \in WorkerOutcomes : WorkerReturns(p, o)
  \/ \E c \in Callers : ShutdownQueues(c)

\* every worker in flight returns in the end: its operation settles or its
\* timer fires
DrainFairness ==
  \A p \in Pools : WF_vars(\E o \in WorkerOutcomes : WorkerReturns(p, o))


(***************************************************************************)
(* Wall clock                                                              *)
(*                                                                         *)
(* The ledger reads the clock through toISOString() at day, hour and month *)
(* resolution, the limiters read Date.now() in milliseconds.  The clock is *)
(* kept as calendar fields plus the milliseconds elapsed within the hour;  *)
(* instants compare field by field, as the ISO strings do.                 *)
(***************************************************************************)
MaxDay == 1
MaxHour == 1
MaxMs == 1000
MsStep == 1000

InitClock == clock = [mo |-> 0, day |-> 0, hr |-> 0, ms |-> 0]

\* now.toISOString().slice(0, 7)
MonthStamp(c) == <<c.mo>>
\* now.toISOString().split('T')[0]
DayStamp(c) == <<c.mo, c.day>>
\* now.toISOString().slice(0, 13) + ':00:00.000Z'
HourStamp(c) == <<c.mo, c.day, c.hr, 0>>
\* now.toISOString(), and Date.now()
Instant(c) == <<c.mo, c.day, c.hr, c.ms>>

\* a > b on strings of equal layout: the first differing field decides
RECURSIVE StampGT(_, _)
StampGT(a, b) ==
  IF a = <<>> \/ b = <<>> THEN FALSE
  ELSE IF Head(a) # Head(b) THEN Head(a) > Head(b)
  ELSE StampGT(Tail(a), Tail(b))

\* some ledger call is between two of its awaits
LedgerBusy == \E p \in DOMAIN pc : pc[p] # "idle"

NoRecorded == [hourly |-> 0, daily |-> 0, monthly |-> 0]

TickMs ==
  /\ clock.ms + MsStep <= MaxMs
  /\ clock' = [clock EXCEPT !.ms = @ + MsStep]
  /\ UNCHANGED <<recorded, committed, dirty>>
  /\ UNCHANGED <<ledger, pc, costData, amount, costResult, records>>
  /\ UNCHANGED notClock

TickHour ==
  /\ clock.hr < MaxHour
  /\ clock' = [clock EXCEPT !.hr = @ + 1, !.ms = 0]
  /\ recorded' = [recorded EXCEPT !.hourly = 0]
  /\ committed' = [committed EXCEPT !.hourly = 0]
  /\ dirty' = (dirty \/ LedgerBusy)
  /\ UNCHANGED <<ledger, pc, costData, amount, costResult, records>>
  /\ UNCHANGED notClock

TickDay ==
  /\ clock.day < MaxDay
  /\ clock' = [clock EXCEPT !.day = @ + 1, !.hr = 0, !.ms = 0]
  /\ recorded' = [recorded EXCEPT !.hourly = 0, !.daily = 0]
  /\ committed' = [committed EXCEPT !.hourly = 0, !.daily = 0]
  /\ dirty' = (dirty \/ LedgerBusy)
  /\ UNCHANGED <<ledger, pc, costData, amount, costResult, records>>
  /\ UNCHANGED notClock

(***************************************************************************)
(* Cost ledger: checkCostLimits and recordCost                             *)
(*                                                                         *)
(* Money is counted in whole dollars.  One client is modelled, so the key  *)
(* cost:<clientId> is left out.  A call runs in three steps, split where   *)
(* the code awaits Redis: hgetall, the hset of a lazy reset, the final     *)
(* comparison or hset.                                                     *)
(***************************************************************************)
DEFAULT_DAILY_LIMIT == 5
DEFAULT_HOURLY_LIMIT == 1
DEFAULT_MONTHLY_LIMIT == 50

MaxRecords == 2

Procs == {1, 2}

Amounts == {1, 5, 50}

NoData == [none |-> TRUE]

NoResult == [allowed |-> TRUE, reason |-> "unset",
             currentUsage |-> NoRecorded, estimatedCost |-> 0]

InitCost ==
  /\ ledger = NoData
  /\ pc = [p \in Procs |-> "idle"]
  /\ costData = [p \in Procs |-> NoData]
  /\ amount = [p \in Procs |-> 0]
  /\ costResult = NoResult
  /\ recorded = NoRecorded
  /\ committed = NoRecorded
  /\ records = 0
  /\ dirty = FALSE

\* getUserCostData: the stored hash, or zeros stamped with the present when
\* there is no store or no hash
GetUserCostData(led, c) ==
  IF ~redis \/ led = NoData
    THEN [daily |-> 0, hourly |-> 0, monthly |-> 0,
          lastResetDaily |-> DayStamp(c),
          lastResetHourly |-> Instant(c),
          lastResetMonthly |-> MonthStamp(c)]
    ELSE led

\* resetExpiredCounters: the `updated` flag
ResetUpdated(cd, c) ==
  \/ StampGT(DayStamp(c), cd.lastResetDaily)
  \/ StampGT(HourStamp(c), cd.lastResetHourly)
  \/ StampGT(MonthStamp(c), cd.lastResetMonthly)

\* mutant of ResetExpiredCounters: a boundary that has passed resets the
\* counters of all three windows
ResetExpiredCountersAll(cd, c) ==
  IF ResetUpdated(cd, c)
    THEN [daily |-> 0, hourly |-> 0, monthly |-> 0,
          lastResetDaily |-> DayStamp(c),
          lastResetHourly |-> HourStamp(c),
          lastResetMonthly |-> MonthStamp(c)]
  ELSE cd

\* resetExpiredCounters: newData
ResetExpiredCounters(cd, c) ==
  LET d == StampGT(DayStamp(c), cd.lastResetDaily)
      h == StampGT(HourStamp(c), cd.lastResetHourly)
      m == StampGT(MonthStamp(c), cd.lastResetMonthly)
  IN [daily |-> IF d THEN 0 ELSE cd.daily,
      hourly |-> IF h THEN 0 ELSE cd.hourly,
      monthly |-> IF m THEN 0 ELSE cd.monthly,
      lastResetDaily |-> IF d THEN DayStamp(c) ELSE cd.lastResetDaily,
      lastResetHourly |-> IF h THEN HourStamp(c) ELSE cd.lastResetHourly,
      lastResetMonthly |-> IF m THEN MonthStamp(c) ELSE cd.lastResetMonthly]

\* mutant of CostReason: the hourly family is looked at before the daily one
CostReasonHourlyFirst(cd, a) ==
  IF cd.hourly + a > DEFAULT_HOURLY_LIMIT THEN "hourly"
  ELSE IF cd.daily + a > DEFAULT_DAILY_LIMIT THEN "daily"
  ELSE IF cd.monthly + a > DEFAULT_MONTHLY_LIMIT THEN "monthly"
  ELSE "none"

\* checkCostLimits: the family its rejection reason names ("none": allowed)
CostReason(cd, a) ==
  IF cd.daily + a > DEFAULT_DAILY_LIMIT THEN "daily"
  ELSE IF cd.hourly + a > DEFAULT_HOURLY_LIMIT THEN "hourly"
  ELSE IF cd.monthly + a > DEFAULT_MONTHLY_LIMIT THEN "monthly"
  ELSE "none"

\* checkCostLimits: the CostLimitResult for the counters cd and the cost a
CostLimitResult(cd, a) ==
  [allowed |-> CostReason(cd, a) = "none",
   reason |-> CostReason(cd, a),
   currentUsage |-> [hourly |-> cd.hourly, daily |-> cd.daily, monthly |-> cd.monthly],
   estimatedCost |-> a]

\* the hash after getUserCostData and resetExpiredCounters ran at time c
LedgerAfterReset(led, c) ==
  IF redis /\ ResetUpdated(GetUserCostData(led, c), c)
    THEN ResetExpiredCounters(GetUserCostData(led, c), c)
    ELSE led

\* checkCostLimits(clientId, a), run with no other ledger call in between
CheckCostLimitsCore(a) ==
  /\ ~LedgerBusy
  /\ LET cd == ResetExpiredCounters(GetUserCostData(ledger, clock), clock)
     IN costResult' = CostLimitResult(cd, a)
  /\ ledger' = LedgerAfterReset(ledger, clock)
  /\ UNCHANGED <<pc, costData, amount, recorded, committed, records, dirty>>

\* checkCostLimits called on its own
CheckCostLimits(a) ==
  /\ CheckCostLimitsCore(a)
  /\ UNCHANGED notCost

\* mutant of RecordCostCore: the estimate of the last check is recorded
\* whatever amount is given
RecordCostCoreEstimate(a) ==
  /\ ~LedgerBusy
  /\ records' = records + 1
  /\ committed' = [f \in DOMAIN committed |-> committed[f] + a]
  /\ IF redis
       THEN /\ LET cd == ResetExpiredCounters(GetUserCostData(ledger, clock), clock)
                   e == costResult.estimatedCost
               IN ledger' = [cd EXCEPT !.daily = @ + e, !.hourly = @ + e,
                                       !.monthly = @ + e]
            /\ recorded' = [f \in DOMAIN recorded |-> recorded[f] + a]
       ELSE UNCHANGED <<ledger, recorded>>
  /\ UNCHANGED <<pc, costData, amount, costResult, dirty>>

\* recordCost(clientId, a), run with no other ledger call in between;
\* without a store it returns at once
RecordCostCore(a) ==
  /\ ~LedgerBusy
  /\ records' = records + 1
  /\ committed' = [f \in DOMAIN committed |-> committed[f] + a]
  /\ IF redis
       THEN /\ LET cd == ResetExpiredCounters(GetUserCostData(ledger, clock), clock)
               IN ledger' = [cd EXCEPT !.daily = @ + a, !.hourly = @ + a,
                                       !.monthly = @ + a]
            /\ recorded' = [f \in DOMAIN recorded |-> recorded[f] + a]
       ELSE UNCHANGED <<ledger, recorded>>
  /\ UNCHANGED <<pc, costData, amount, costResult, dirty>>

\* recordCost called on its own
RecordCost(a) ==
  /\ records < MaxRecords
  /\ RecordCostCore(a)
  /\ UNCHANGED notCost

\* the same two calls step by step, split where the code awaits the store;
\* a call begins: checkCostLimits(clientId, a) or recordCost(clientId, a)
CallCheckCostLimits(p, a) ==
  /\ pc[p] = "idle"
  /\ pc' = [pc EXCEPT ![p] = "check_read"]
  /\ amount' = [amount EXCEPT ![p] = a]
  /\ UNCHANGED <<ledger, costData, costResult, recorded, committed, records, dirty>>
  /\ UNCHANGED notCost

CallRecordCost(p, a) ==
  /\ redis
  /\ pc[p] = "idle"
  /\ records < MaxRecords
  /\ records' = records + 1
  /\ pc' = [pc EXCEPT ![p] = "record_read"]
  /\ amount' = [amount EXCEPT ![p] = a]
  /\ UNCHANGED <<ledger, costData, costResult, recorded, committed, dirty>>
  /\ UNCHANGED notCost

\* await getUserCostData(clientId)
ReadCostData(p) ==
  /\ pc[p] \in {"check_read", "record_read"}
  /\ costData' = [costData EXCEPT ![p] = GetUserCostData(ledger, clock)]
  /\ pc' = [pc EXCEPT ![p] = IF pc[p] = "check_read" THEN "check_reset" ELSE "record_reset"]
  /\ UNCHANGED <<ledger, amount, costResult, recorded, committed, records, dirty>>
  /\ UNCHANGED notCost

\* await resetExpiredCounters(clientId, costData): a lazy reset is written
\* back with hset at once
ResetCostData(p) ==
  /\ pc[p] \in {"check_reset", "record_reset"}
  /\ costData' = [costData EXCEPT ![p] = ResetExpiredCounters(@, clock)]
  /\ ledger' = IF redis /\ ResetUpdated(costData[p], clock)
                 THEN ResetExpiredCounters(costData[p], clock)
                 ELSE ledger
  /\ pc' = [pc EXCEPT ![p] = IF pc[p] = "check_reset" THEN "check_decide" ELSE "record_write"]
  /\ UNCHANGED <<amount, costResult, recorded, committed, records, dirty>>
  /\ UNCHANGED notCost

\* checkCostLimits compares the projected totals and returns
DecideCostLimits(p) ==
  /\ pc[p] = "check_decide"
  /\ costResult' = CostLimitResult(costData[p], amount[p])
  /\ pc' = [pc EXCEPT ![p] = "idle"]
  /\ costData' = [costData EXCEPT ![p] = NoData]
  /\ amount' = [amount EXCEPT ![p] = 0]
  /\ UNCHANGED <<ledger, recorded, committed, records, dirty>>
  /\ UNCHANGED notCost

\* recordCost adds the cost to its copy and writes the copy back with hset
WriteCost(p) ==
  /\ pc[p] = "record_write"
  /\ ledger' = [costData[p] EXCEPT !.daily = @ + amount[p],
                                   !.hourly = @ + amount[p],
                                   !.monthly = @ + amount[p]]
  /\ recorded' = [f \in DOMAIN recorded |-> recorded[f] + amount[p]]
  /\ committed' = [f \in DOMAIN committed |-> committed[f] + amount[p]]
  /\ pc' = [pc EXCEPT ![p] = "idle"]
  /\ costData' = [costData EXCEPT ![p] = NoData]
  /\ amount' = [amount EXCEPT ![p] = 0]
  /\ UNCHANGED <<costResult, records, dirty>>
  /\ UNCHANGED notCost

\* the ledger used by the processes of P with the amounts of A
NextCost(P, A) ==
  \/ \E p \in P, a \in A : CallCheckCostLimits(p, a)
  \/ \E p \in P, a \in A : CallRecordCost(p, a)
  \/ \E p \in P : ReadCostData(p)
  \/ \E p \in P : ResetCostData(p)
  \/ \E p \in P : DecideCostLimits(p)
  \/ \E p \in P : WriteCost(p)

\* what a call made now would take as the client's usage
Usage ==
  LET cd == ResetExpiredCounters(GetUserCostData(ledger, clock), clock)
  IN [hourly |-> cd.hourly, daily |-> cd.daily, monthly |-> cd.monthly]

(***************************************************************************)
(* Request-count limiters: memoryLimiter, createLimiter and                *)
(* checkMultiTierLimits.  The in-memory implementation is modelled; the    *)
(* store-backed one is the Upstash library.  One client is modelled, so    *)
(* each limiter's Map holds at most the record of that client.             *)
(***************************************************************************)
MaxCalls == 22

Tiers == {"basic", "burst", "daily"}

CHAT_BASIC_LIMIT == 5
CHAT_BURST_LIMIT == 20
CHAT_DAILY_LIMIT == 100

\* the (limit, window) arguments of limitChatBasic / limitChatBurst / limitChatDaily
TierLimit(t) ==
  CASE t = "basic" -> CHAT_BASIC_LIMIT
    [] t = "burst" -> CHAT_BURST_LIMIT
    [] t = "daily" -> CHAT_DAILY_LIMIT

TierWindow(t) ==
  CASE t = "basic" -> [n |-> 1, unit |-> "m"]
    [] t = "burst" -> [n |-> 1, unit |-> "h"]
    [] t = "daily" -> [n |-> 1, unit |-> "d"]

\* createLimiter, in-memory branch: sec = Number(window.split(" ")[0]),
\* and the window handed to memoryLimiter is sec * 1000 ms
WindowMs(w) == w.n * 1000

NoRec == [none |-> TRUE]

NoQuota == [none |-> TRUE]
NoTiers == [none |-> TRUE]

NoRate == [success |-> TRUE, tier |-> "unset", limit |-> 0, remaining |-> 0,
           reset |-> <<0, 0, 0, 0>>, message |-> "unset"]

InitRate ==
  /\ limiter = [t \in Tiers |-> NoRec]
  /\ rateResult = NoRate
  /\ tierSuccess = [t \in Tiers |-> TRUE]
  /\ winCalls = 0

\* now + windowMs (the windows modelled end within the hour they begin in)
AddMs(c, d) == <<c.mo, c.day, c.hr, c.ms + d>>

\* !rec || now >= rec.resetAt
Expired(rec, c) ==
  IF rec = NoRec THEN TRUE ELSE ~StampGT(rec.resetAt, Instant(c))

\* Math.ceil(resetAt / 1000): the reset time in whole seconds
CeilSeconds(at) == <<at[1], at[2], at[3], (at[4] + 999) \div 1000>>

\* Math.floor(Date.now() / 1000)
FloorSeconds(at) == <<at[1], at[2], at[3], at[4] \div 1000>>

\* memoryLimiter: the record it leaves in the Map
LimiterRecord(rec, limit, windowMs, c) ==
  IF Expired(rec, c)
    THEN [count |-> 1, resetAt |-> AddMs(c, windowMs)]
  ELSE IF rec.count >= limit THEN rec
  ELSE [rec EXCEPT !.count = @ + 1]

\* mutant of LimiterResult: the limiter lets the request at the limit pass
LimiterResultOffByOne(rec, limit, windowMs, c) ==
  IF Expired(rec, c)
    THEN [success |-> TRUE, limit |-> limit, remaining |-> limit - 1,
          reset |-> CeilSeconds(AddMs(c, windowMs))]
  ELSE IF rec.count > limit
    THEN [success |-> FALSE, limit |-> limit, remaining |-> 0,
          reset |-> CeilSeconds(rec.resetAt)]
  ELSE [success |-> TRUE, limit |-> limit, remaining |-> limit - (rec.count + 1),
        reset |-> CeilSeconds(rec.resetAt)]

\* memoryLimiter: the LimitResult it returns
LimiterResult(rec, limit, windowMs, c) ==
  IF Expired(rec, c)
    THEN [success |-> TRUE, limit |-> limit, remaining |-> limit - 1,
          reset |-> CeilSeconds(AddMs(c, windowMs))]
  ELSE IF rec.count >= limit
    THEN [success |-> FALSE, limit |-> limit, remaining |-> 0,
          reset |-> CeilSeconds(rec.resetAt)]
  ELSE [success |-> TRUE, limit |-> limit, remaining |-> limit - (rec.count + 1),
        reset |-> CeilSeconds(rec.resetAt)]

TierMessage(t) ==
  CASE t = "basic" -> "Too many requests per minute. Please slow down."
    [] t = "burst" -> "Hourly limit exceeded. Please try again later."
    [] t = "daily" -> "Daily limit exceeded. Please try again tomorrow."

\* the smaller of two LimitResults by remaining, the earlier one on a tie
MinRemaining(a, b) == IF b.remaining < a.remaining THEN b ELSE a

\* checkMultiTierLimits: the result built from the three LimitResults
MultiTier(r) ==
  IF ~r["basic"].success
    THEN r["basic"] @@ [tier |-> "basic", message |-> TierMessage("basic")]
  ELSE IF ~r["burst"].success
    THEN r["burst"] @@ [tier |-> "burst", message |-> TierMessage("burst")]
  ELSE IF ~r["daily"].success
    THEN r["daily"] @@ [tier |-> "daily", message |-> TierMessage("daily")]
  ELSE MinRemaining(MinRemaining(r["basic"], r["burst"]), r["daily"])
         @@ [tier |-> "basic", message |-> "none"]

\* the LimitResults of the in-memory limiters for a call made now
MemoryResults ==
  [t \in Tiers |-> LimiterResult(limiter[t], TierLimit(t), WindowMs(TierWindow(t)), clock)]

\* the LimitResults of the store-backed limiters (Ratelimit.slidingWindow of
\* the Upstash library): whether a tier admits the call is the library's
\* answer, and so is what remains of its window: nothing after the call for
\* the tiers of low, all but this call for the others
StoreResults(admits, low) ==
  [t \in Tiers |-> [success |-> admits[t], limit |-> TierLimit(t),
                    remaining |-> IF admits[t] /\ t \notin low
                                    THEN TierLimit(t) - 1 ELSE 0,
                    reset |-> CeilSeconds(AddMs(clock, 1000))]]

\* the sets of tiers a call is taken to use up: none, or the hourly one
LowSets == {{}, {"burst"}}

\* the three LimitResults checkMultiTierLimits gets for a call made now
TierResults(admits, low) ==
  IF redis THEN StoreResults(admits, low) ELSE MemoryResults

\* checkMultiTierLimits(clientId): all three limiters are called, then the
\* result is built from their answers
CheckMultiTierLimitsWith(admits, low) ==
    LET r == TierResults(admits, low)
    IN /\ ~redis => (admits = [t \in Tiers |-> TRUE] /\ low = {})
       /\ low \subseteq {t \in Tiers : admits[t]}
       /\ limiter' = IF redis THEN limiter
                     ELSE [t \in Tiers |->
                             LimiterRecord(limiter[t], TierLimit(t),
                                           WindowMs(TierWindow(t)), clock)]
       /\ winCalls' = IF redis THEN winCalls
                      ELSE IF Expired(limiter["basic"], clock) THEN 1
                      ELSE winCalls + 1
       /\ rateResult' = MultiTier(r)
       /\ tierSuccess' = [t \in Tiers |-> r[t].success]

\* the same with store-backed windows that this call does not use up
CheckMultiTierLimitsCore(admits) == CheckMultiTierLimitsWith(admits, {})

\* checkMultiTierLimits called on its own
CheckMultiTierLimits ==
  \E admits \in [Tiers -> BOOLEAN] :
    /\ redis \/ winCalls < MaxCalls \/ Expired(limiter["basic"], clock)
    /\ CheckMultiTierLimitsCore(admits)
    /\ UNCHANGED notRate

NextRate == CheckMultiTierLimits

(***************************************************************************)
(* Cache hierarchy: caching.ts and the agent wrappers of agentCache.ts     *)
(*                                                                         *)
(* The store holds one entry per key; a key set with setex is gone once    *)
(* the time it was last set plus its TTL is reached.  SHA-256 digests are  *)
(* taken to be free of collisions, so a key is the tuple that was hashed.  *)
(* Times are in whole seconds.  A context is the agent type alone, and the *)
(* pattern of generateAgentPattern is then the agent type too.             *)
(***************************************************************************)
MaxCacheOps == 2

TTL_EXACT_MATCH == 86400
TTL_SEMANTIC == 604800
TTL_PARTIAL_CONTEXT == 2592000

\* thresholds in hundredths: CACHE_CONFIG.SIMILARITY.MEDIUM and the
\* SIMILARITY_THRESHOLDS of the agent types modelled
SIMILARITY_MEDIUM == 85
THRESHOLD_AIRISK == 90
THRESHOLD_ECONOMIST == 80

\* keys.slice(0, 100)
SCAN_LIMIT == 100

Levels == {"exact", "semantic", "partial"}

Agents == {"aiRisk", "economist"}

Inputs == {"a", "b"}

\* the embedding the provider returns for an input: cos(a, b) = 0.894
Embedding(i) ==
  CASE i = "a" -> <<1, 0>>
    [] i = "b" -> <<2, 1>>

\* AGENT_CACHE_CONFIG.SIMILARITY_THRESHOLDS
AgentThreshold(a) ==
  CASE a = "aiRisk"    -> THRESHOLD_AIRISK
    [] a = "economist" -> THRESHOLD_ECONOMIST

\* the TTL each level stores with
LevelTtl(l) ==
  CASE l = "exact"    -> TTL_EXACT_MATCH
    [] l = "semantic" -> TTL_SEMANTIC
    [] l = "partial"  -> TTL_PARTIAL_CONTEXT

\* generateExactHash(input, context), the semantic key of setSemanticCache
\* and the key of getPartialCache / setPartialCache
ExactKey(i, a) == <<"exact", i, a>>
SemanticKey(i) == <<"semantic", i, "-">>
PartialKey(a) == <<"partial", "-", a>>

LevelKey(l, i, a) ==
  CASE l = "exact"    -> ExactKey(i, a)
    [] l = "semantic" -> SemanticKey(i)
    [] l = "partial"  -> PartialKey(a)

SemanticKeys == {SemanticKey(i) : i \in Inputs}

\* the context { topK, domain } retrieveEvidence caches the evidence under
EvidenceContext == "evidence"

CacheKeys ==
  {ExactKey(i, a) : i \in Inputs, a \in Agents \cup {EvidenceContext}}
    \cup SemanticKeys \cup {PartialKey(a) : a \in Agents}

NoEntry == [none |-> TRUE]

NoValue == [by |-> "-", for |-> "-", at |-> 0]

NoMemo == [none |-> TRUE]

\* the store call of getCachedEmbedding that throws
EmbedFailures == {"none", "get", "setex"}

\* a similarity dot / sqrt(nn), kept as the pair so that comparisons are exact
NoSim == [dot |-> 0, nn |-> 0]
FullSim == [dot |-> 1, nn |-> 1]

\* Date.now() in whole seconds
Seconds(c) == ((c.mo * 30 + c.day) * 24 + c.hr) * 3600 + c.ms \div 1000

RECURSIVE Dot(_, _)
Dot(u, v) == IF u = <<>> THEN 0 ELSE Head(u) * Head(v) + Dot(Tail(u), Tail(v))

\* cosineSimilarity(a, b)
CosineSimilarity(u, v) ==
  IF Len(u) # Len(v) THEN [dot |-> 0, nn |-> 1]
  ELSE IF Dot(u, u) = 0 \/ Dot(v, v) = 0 THEN [dot |-> 0, nn |-> 1]
  ELSE [dot |-> Dot(u, v), nn |-> Dot(u, u) * Dot(v, v)]

\* similarity >= pct / 100
SimGE(s, pct) == s.dot >= 0 /\ 10000 * s.dot * s.dot >= pct * pct * s.nn

\* similarity s > similarity t
SimGT(s, t) ==
  IF s.dot >= 0 /\ t.dot >= 0 THEN s.dot * s.dot * t.nn > t.dot * t.dot * s.nn
  ELSE IF s.dot >= 0 THEN TRUE
  ELSE IF t.dot >= 0 THEN FALSE
  ELSE s.dot * s.dot * t.nn < t.dot * t.dot * s.nn

InitCache ==
  /\ store = [k \in CacheKeys |-> NoEntry]
  /\ others \in (IF redis THEN {0, SCAN_LIMIT} ELSE {0})
  /\ cacheOp = [kind |-> "none", api |-> "-", input |-> "-", agent |-> "-",
                pattern |-> FALSE, scanned |-> {}, down |-> FALSE, at |-> 0]
  /\ cacheResult = [hit |-> FALSE, source |-> "miss", data |-> NoValue,
                    similarity |-> NoSim, probed |-> <<>>]
  /\ cacheOps = 0
  /\ memo = [i \in Inputs |-> NoMemo]
  /\ embedded = [n |-> 0, text |-> "-", fail |-> "none", calls |-> 0,
                 vector |-> <<>>, at |-> 0, memoized |-> FALSE]

\* JSON.stringify(embedding) and JSON.parse of it: an array of finite
\* numbers comes back as it was
JsonStringify(v) == [json |-> v]
JsonParse(j) == j.json

\* redis.get(cacheKey) of getCachedEmbedding returns a value
Memoized(m, t, now) ==
  IF m[t] = NoMemo THEN FALSE ELSE now < m[t].expiresAt

\* mutant of GetEmbedding: the provider is asked whatever the store holds
GetEmbeddingUnmemoized(m, t, now, fail) ==
  IF ~redis \/ fail # "none"
    THEN [memo |-> m, calls |-> 1, vector |-> Embedding(t)]
  ELSE [memo |-> [m EXCEPT ![t] = [value |-> JsonStringify(Embedding(t)),
                                   expiresAt |-> now + TTL_SEMANTIC]],
        calls |-> 1, vector |-> Embedding(t)]

\* getCachedEmbedding(text): the vector it returns, the number of calls of
\* the provider it makes and the memo it leaves.  fail names the store call
\* that throws, if any: without a store the provider is called directly; a
\* memoized vector is parsed and returned; else the provider is called and
\* its vector stored for TTL.SEMANTIC; the catch calls the provider (again)
GetEmbedding(m, t, now, fail) ==
  IF ~redis \/ fail = "get"
    THEN [memo |-> m, calls |-> 1, vector |-> Embedding(t)]
  ELSE IF Memoized(m, t, now)
    THEN [memo |-> m, calls |-> 0, vector |-> JsonParse(m[t].value)]
  ELSE IF fail = "setex"
    THEN [memo |-> m, calls |-> 2, vector |-> Embedding(t)]
  ELSE [memo |-> [m EXCEPT ![t] = [value |-> JsonStringify(Embedding(t)),
                                   expiresAt |-> now + TTL_SEMANTIC]],
        calls |-> 1, vector |-> Embedding(t)]

\* the memo after getSemanticCache / setSemanticCache has asked for the
\* embedding of t
MemoAfter(m, t, now, down) == GetEmbedding(m, t, now, IF down THEN "get" ELSE "none").memo

\* the key exists in the store at time now
Present(st, k, now) ==
  IF st[k] = NoEntry THEN FALSE ELSE now < st[k].expiresAt

\* mutant of StoreCacheEntry: nothing is written
StoreCacheEntryNothing(st, k, data, ttl, embedding, now, down) == st

\* storeCacheEntry: setex(key, ttl, entry); without a store, or when the
\* store throws, nothing is written
StoreCacheEntry(st, k, data, ttl, embedding, now, down) ==
  IF ~redis \/ down THEN st
  ELSE [st EXCEPT ![k] = [data |-> data, timestamp |-> now, ttl |-> ttl, hits |-> 0,
                          embedding |-> embedding, expiresAt |-> now + ttl]]

\* mutant of ReadEntry: an entry is returned although the store threw
ReadEntryThroughError(st, k, now, down) ==
  IF ~redis THEN NoEntry
  ELSE IF Present(st, k, now) THEN [st[k] EXCEPT !.hits = @ + 1]
  ELSE NoEntry

\* getCacheEntry: the entry it returns, with its hit count raised; null
\* without a store and when the store throws (the catch returns null)
ReadEntry(st, k, now, down) ==
  IF ~redis \/ down THEN NoEntry
  ELSE IF Present(st, k, now) THEN [st[k] EXCEPT !.hits = @ + 1]
  ELSE NoEntry

\* getCacheEntry: the store after setex(key, entry.ttl, entry)
TouchEntry(st, k, now, down) ==
  IF ~redis \/ down THEN st
  ELSE IF Present(st, k, now)
    THEN [st EXCEPT ![k] = [@ EXCEPT !.hits = @ + 1, !.expiresAt = now + st[k].ttl]]
  ELSE st

RECURSIVE TouchAll(_, _, _, _)
TouchAll(st, ks, now, down) ==
  IF ks = {} THEN st
  ELSE LET k == CHOOSE x \in ks : TRUE
       IN TouchAll(TouchEntry(st, k, now, down), ks \ {k}, now, down)

\* the semantic keys redis.keys() returns
LiveSemantic(st, now) == {k \in SemanticKeys : Present(st, k, now)}

\* the sets of modelled keys that keys.slice(0, 100) may hold: all of them
\* while the store holds at most 100 semantic keys, else all but as many as
\* the slice cuts off, in the store's order
Scans(st, now) ==
  LET live == LiveSemantic(st, now)
      cut == Cardinality(live) + others - SCAN_LIMIT
  IN IF ~redis THEN {{}}
     ELSE {S \in SUBSET live : Cardinality(live \ S) <= (IF cut > 0 THEN cut ELSE 0)}

\* getSemanticCache: the scanned keys at or above the threshold
Candidates(st, q, now) ==
  {k \in q.scanned :
     /\ ReadEntry(st, k, now, q.down) # NoEntry
     /\ st[k].embedding # <<>>
     /\ SimGE(CosineSimilarity(Embedding(q.input), st[k].embedding), q.threshold)}

\* getSemanticCache: bestMatch
BestMatch(st, q, now) ==
  CHOOSE k \in Candidates(st, q, now) :
    \A j \in Candidates(st, q, now) :
      ~SimGT(CosineSimilarity(Embedding(q.input), st[j].embedding),
             CosineSimilarity(Embedding(q.input), st[k].embedding))

Miss(st) == [hit |-> FALSE, data |-> NoValue, similarity |-> NoSim, store |-> st]

\* mutant of ProbeLevel: the partial level hits only the entry stored for the
\* input of the lookup
ProbeLevelPartialByInput(l, st, q, now) ==
  IF l = "semantic"
    THEN IF Candidates(st, q, now) = {}
           THEN Miss(TouchAll(st, q.scanned, now, q.down))
         ELSE LET k == BestMatch(st, q, now)
              IN [hit |-> TRUE, data |-> st[k].data,
                  similarity |-> CosineSimilarity(Embedding(q.input), st[k].embedding),
                  store |-> TouchAll(st, q.scanned, now, q.down)]
  ELSE LET k == LevelKey(l, q.input, q.agent)
           e == ReadEntry(st, k, now, q.down)
       IN IF e = NoEntry \/ e.data.for # q.input THEN Miss(st)
          ELSE [hit |-> TRUE, data |-> e.data,
                similarity |-> IF l = "exact" THEN FullSim ELSE NoSim,
                store |-> TouchEntry(st, k, now, q.down)]

\* getExactCache / getSemanticCache / getPartialCache for the query q: the
\* result and the store the probe leaves
ProbeLevel(l, st, q, now) ==
  IF l = "semantic"
    THEN IF Candidates(st, q, now) = {}
           THEN Miss(TouchAll(st, q.scanned, now, q.down))
         ELSE LET k == BestMatch(st, q, now)
              IN [hit |-> TRUE, data |-> st[k].data,
                  similarity |-> CosineSimilarity(Embedding(q.input), st[k].embedding),
                  store |-> TouchAll(st, q.scanned, now, q.down)]
  ELSE LET k == LevelKey(l, q.input, q.agent)
           e == ReadEntry(st, k, now, q.down)
       IN IF e = NoEntry THEN Miss(st)
          ELSE [hit |-> TRUE, data |-> e.data,
                similarity |-> IF l = "exact" THEN FullSim ELSE NoSim,
                store |-> TouchEntry(st, k, now, q.down)]

\* mutant of ProbeLevels: the semantic level is probed before the exact one
ProbeLevelsSemanticFirst == <<"semantic", "exact", "partial">>

\* getHierarchicalCache: the levels in the order it probes them
ProbeLevels == <<"exact", "semantic", "partial">>

\* getHierarchicalCache: probe the levels in turn, return at the first hit;
\* the partial level is passed over unless pattern && context
RECURSIVE Probe(_, _, _, _, _)
Probe(levels, st, q, now, probed) ==
  IF levels = <<>>
    THEN [hit |-> FALSE, source |-> "miss", data |-> NoValue, similarity |-> NoSim,
          probed |-> probed, store |-> st]
  ELSE IF Head(levels) = "partial" /\ ~q.pattern
    THEN Probe(Tail(levels), st, q, now, probed)
  ELSE LET r == ProbeLevel(Head(levels), st, q, now)
       IN IF r.hit
            THEN [hit |-> TRUE, source |-> Head(levels), data |-> r.data,
                  similarity |-> r.similarity,
                  probed |-> Append(probed, Head(levels)), store |-> r.store]
          ELSE Probe(Tail(levels), r.store, q, now, Append(probed, Head(levels)))

\* the query of a lookup: getHierarchicalCache hands getSemanticCache
\* CACHE_CONFIG.SIMILARITY.MEDIUM, which is its default too
Query(i, a, pat, scanned, down) ==
  [input |-> i, agent |-> a, pattern |-> pat, threshold |-> SIMILARITY_MEDIUM,
   scanned |-> scanned, down |-> down]

CacheOp(kind, api, q) ==
  [kind |-> kind, api |-> api, input |-> q.input, agent |-> q.agent,
   pattern |-> q.pattern, scanned |-> q.scanned, down |-> q.down,
   at |-> Seconds(clock)]

\* the value setCachedAgentResponse stores
AgentResponse(i, a) == [by |-> a, for |-> i, at |-> Seconds(clock)]

\* getHierarchicalCache(input, context, pattern), as getCachedAgentResponse
\* calls it (pattern given) or without a pattern
GetHierarchicalCacheCore(i, a, pat, down) ==
  /\ cacheOps' = cacheOps + 1
  /\ \E S \in Scans(store, Seconds(clock)) :
       LET q == Query(i, a, pat, S, down)
           r == Probe(ProbeLevels, store, q, Seconds(clock), <<>>)
       IN /\ store' = r.store
          /\ cacheResult' = [hit |-> r.hit, source |-> r.source, data |-> r.data,
                             similarity |-> r.similarity, probed |-> r.probed]
          /\ cacheOp' = CacheOp("get", "hier", q)
          /\ memo' = IF redis /\ \E n \in 1..Len(r.probed) : r.probed[n] = "semantic"
                       THEN MemoAfter(memo, i, Seconds(clock), down) ELSE memo
  /\ UNCHANGED <<others, embedded>>

\* a lookup made on its own
GetHierarchicalCache(i, a, pat, down) ==
  /\ cacheOps < MaxCacheOps
  /\ GetHierarchicalCacheCore(i, a, pat, down)
  /\ UNCHANGED notCache

\* getExactCache / getSemanticCache / getPartialCache called on its own
GetLevelCacheCore(l, i, a, down) ==
  /\ cacheOps' = cacheOps + 1
  /\ \E S \in Scans(store, Seconds(clock)) :
       LET q == Query(i, a, TRUE, IF l = "semantic" THEN S ELSE {}, down)
           r == ProbeLevel(l, store, q, Seconds(clock))
       IN /\ (l # "semantic") => S = CHOOSE T \in Scans(store, Seconds(clock)) : TRUE
          /\ store' = r.store
          /\ cacheResult' = [hit |-> r.hit, source |-> IF r.hit THEN l ELSE "miss",
                             data |-> r.data, similarity |-> r.similarity,
                             probed |-> <<l>>]
          /\ cacheOp' = CacheOp("get", l, q)
  /\ memo' = IF redis /\ l = "semantic"
               THEN MemoAfter(memo, i, Seconds(clock), down) ELSE memo
  /\ UNCHANGED <<others, embedded>>

\* a level looked up on its own
GetLevelCache(l, i, a, down) ==
  /\ cacheOps < MaxCacheOps
  /\ GetLevelCacheCore(l, i, a, down)
  /\ UNCHANGED notCache

\* setExactCache / setSemanticCache / setPartialCache: the store after it
SetLevel(l, st, i, a, now, down) ==
  StoreCacheEntry(st, LevelKey(l, i, a), AgentResponse(i, a), LevelTtl(l),
                  IF l = "semantic" THEN Embedding(i) ELSE <<>>, now, down)

\* setExactCache / setSemanticCache / setPartialCache called on its own
SetLevelCacheCore(l, i, a, down) ==
  /\ cacheOps' = cacheOps + 1
  /\ store' = SetLevel(l, store, i, a, Seconds(clock), down)
  /\ cacheOp' = CacheOp("set", l, Query(i, a, TRUE, {}, down))
  /\ memo' = IF l = "semantic"
               THEN MemoAfter(memo, i, Seconds(clock), down) ELSE memo
  /\ UNCHANGED <<cacheResult, others, embedded>>

\* a level stored on its own
SetLevelCache(l, i, a, down) ==
  /\ cacheOps < MaxCacheOps
  /\ SetLevelCacheCore(l, i, a, down)
  /\ UNCHANGED notCache

\* setHierarchicalCache(input, data, context, pattern): exact and semantic
\* always, partial if pattern && context
SetHierarchicalCacheCore(i, a, pat, down) ==
  /\ cacheOps' = cacheOps + 1
  /\ LET now == Seconds(clock)
         s1 == SetLevel("exact", store, i, a, now, down)
         s2 == SetLevel("semantic", s1, i, a, now, down)
     IN store' = IF pat THEN SetLevel("partial", s2, i, a, now, down) ELSE s2
  /\ cacheOp' = CacheOp("set", "hier", Query(i, a, pat, {}, down))
  /\ memo' = MemoAfter(memo, i, Seconds(clock), down)
  /\ UNCHANGED <<cacheResult, others, embedded>>

\* a store made on its own
SetHierarchicalCache(i, a, pat, down) ==
  /\ cacheOps < MaxCacheOps
  /\ SetHierarchicalCacheCore(i, a, pat, down)
  /\ UNCHANGED notCache

MaxEmbedCalls == 3

\* getCachedEmbedding(text) called on its own; fail is the store call that
\* throws during it
GetCachedEmbedding(t, fail) ==
  /\ embedded.n < MaxEmbedCalls
  /\ redis \/ fail = "none"
  /\ LET now == Seconds(clock)
         r == GetEmbedding(memo, t, now, fail)
     IN /\ memo' = r.memo
        /\ embedded' = [n |-> embedded.n + 1, text |-> t, fail |-> fail,
                        calls |-> r.calls, vector |-> r.vector, at |-> now,
                        memoized |-> redis /\ Memoized(memo, t, now)]
  /\ UNCHANGED <<store, others, cacheOp, cacheResult, cacheOps>>
  /\ UNCHANGED notCache

NextCache ==
  \/ \E i \in Inputs, a \in Agents, pat \in BOOLEAN, down \in BOOLEAN :
       GetHierarchicalCache(i, a, pat, down)
  \/ \E i \in Inputs, a \in Agents, pat \in BOOLEAN, down \in BOOLEAN :
       SetHierarchicalCache(i, a, pat, down)
  \/ \E l \in Levels, i \in Inputs, a \in Agents, down \in BOOLEAN :
       GetLevelCache(l, i, a, down)
  \/ \E l \in Levels, i \in Inputs, a \in Agents, down \in BOOLEAN :
       SetLevelCache(l, i, a, down)

(***************************************************************************)
(* One request through POST /api/decision                                  *)
(*                                                                         *)
(* The handler runs performSecurityCheck, reads the body, moderates the    *)
(* prompt, hands the creation of the message stream to the decision pool,  *)
(* records the estimated cost and returns the stream.  The generation runs *)
(* inside the stream's execute callback; among its tools aiRiskTool looks  *)
(* its answer up in the cache before retrieving evidence and generating.   *)
(* The other traffic of the instance appears as submissions to the PDF     *)
(* pool.  Whether a body that was read once can be read or cloned again is *)
(* the platform's answer: the Fetch standard's answer is a TypeError, and  *)
(* both answers are kept.                                                  *)
(***************************************************************************)
MaxToolCalls == 2

ValidationOutcomes == {"valid", "size", "format", "threw"}

OriginReason == "Request origin not allowed"
UserAgentReason == "Invalid user agent"
OverloadReason == "System is currently overloaded. Please try again in a few minutes."
FailOpenReason == "Security check error"

\* the error of validateRequest
ValidationReason(v) ==
  CASE v = "size"   -> "Request size exceeds maximum allowed limit"
    [] v = "format" -> "Invalid request format"
    [] v = "threw"  -> "Failed to parse request body"

\* the reason of checkCostLimits, up to the amounts it quotes
CostMessage(kind) ==
  CASE kind = "daily"   -> "Daily cost limit exceeded"
    [] kind = "hourly"  -> "Hourly cost limit exceeded"
    [] kind = "monthly" -> "Monthly cost limit exceeded"

\* the reasons performSecurityCheck can give that contain "overloaded",
\* "rate limit" and "cost limit" (String.includes is case-sensitive)
MentionsOverloaded == {OverloadReason}
MentionsRateLimit == {}
MentionsCostLimit == {CostMessage(k) : k \in {"daily", "hourly", "monthly"}}

\* the status POST gives a rejected request
StatusCode(reason) ==
  IF reason \in MentionsOverloaded THEN 503
  ELSE IF reason \in MentionsRateLimit \cup MentionsCostLimit THEN 429
  ELSE 400

\* mutant of QueueOverloaded: a pool at 80% of its intervalCap is overloaded
QueueOverloadedAtCap(p) ==
  (qLen[p] + qRunning[p]) * 10 >= IntervalCap(p) * 8

\* areQueuesOverloaded, details.<pool>: length() + running() > intervalCap * 0.8
QueueOverloaded(p) ==
  (qLen[p] + qRunning[p]) * 10 > IntervalCap(p) * 8

\* areQueuesOverloaded, overloaded: some pool is
AreQueuesOverloaded ==
  \E p \in Pools : QueueOverloaded(p)

InitRequest ==
  req = [pc |-> "start", bodyUsed |-> FALSE, reread |-> "unknown",
         called |-> {}, checked |-> {}, failOpen |-> FALSE,
         estimate |-> 0, reason |-> "none", status |-> 0,
         dispatched |-> FALSE, gen |-> "none", tool |-> "idle",
         toolInput |-> "-", toolCalls |-> 0, lookedUp |-> FALSE,
         costRecorded |-> FALSE, timedOut |-> {}, cached |-> {}, raised |-> {},
         code |-> "none", headers |-> {}, order |-> <<>>,
         quota |-> NoQuota, tiers |-> NoTiers,
         commit |-> "none", answered |-> {}]

\* the code POST gives every request performSecurityCheck did not allow
SecurityCode == "SECURITY_CHECK_FAILED"

\* the headers performSecurityCheck adds for a request the rate limiter
\* rejected, beside the security headers every response carries
RateLimitHeaders ==
  {"X-RateLimit-Message", "RateLimit-Limit", "RateLimit-Remaining", "RateLimit-Reset"}

\* the headers performSecurityCheck adds for a request that passed all checks
AdmittedHeaders ==
  {"RateLimit-Limit", "RateLimit-Remaining", "RateLimit-Reset", "X-Cost-Estimate"}

\* the values of RateLimit-Limit, RateLimit-Remaining and RateLimit-Reset,
\* String(n) of the numbers of the rateLimitResult, and the tier it reports
Quota(rr) ==
  [limit |-> rr.limit, remaining |-> rr.remaining, reset |-> rr.reset,
   tier |-> rr.tier]

\* POST answers a request performSecurityCheck did not allow: the body is
\* { error: reason, code }, the headers are those of the security result
Rejected(r, reason) ==
  [r EXCEPT !.pc = "done", !.reason = reason, !.status = StatusCode(reason),
            !.code = SecurityCode]

\* mutant of FailOpen: the catch rejects the request
FailClosed(r) ==
  [r EXCEPT !.pc = "done", !.reason = FailOpenReason, !.status = 400]

\* the catch of performSecurityCheck: the request is allowed, with an
\* estimated cost of 0
FailOpen(r) ==
  [r EXCEPT !.pc = "parse", !.failOpen = TRUE, !.reason = FailOpenReason,
            !.estimate = 0]

\* the platform's answer to a second read of the body
Rereads(r, readable) ==
  /\ ~r.bodyUsed => readable
  /\ r.reread = "yes" => readable
  /\ r.reread = "no" => ~readable

Reread(r, readable) ==
  IF ~r.bodyUsed THEN r.reread ELSE IF readable THEN "yes" ELSE "no"

\* mutant of SecurityGate: the overload check is made before the user
\* agent is looked at
SecurityGateOverloadFirst(originOk, uaOk) ==
  /\ req.pc = "start"
  /\ req' = IF ~originOk
              THEN Rejected([req EXCEPT !.order = <<"origin">>], OriginReason)
            ELSE LET r == [req EXCEPT !.called = @ \cup {"overload"},
                                      !.checked = @ \cup {"overload"},
                                      !.order = <<"origin", "overload">>]
                 IN IF AreQueuesOverloaded THEN Rejected(r, OverloadReason)
                    ELSE IF ~uaOk
                      THEN Rejected([r EXCEPT !.order = Append(@, "agent")],
                                    UserAgentReason)
                    ELSE [r EXCEPT !.pc = "validate", !.order = Append(@, "agent")]
  /\ UNCHANGED <<redis, clock, queueVars, costVars, rateVars, cacheVars, workerVars, session, shut>>

\* performSecurityCheck up to its first await: origin, user agent, overload
SecurityGate(originOk, uaOk) ==
  /\ req.pc = "start"
  /\ req' = IF ~originOk
              THEN Rejected([req EXCEPT !.order = <<"origin">>], OriginReason)
            ELSE IF ~uaOk
              THEN Rejected([req EXCEPT !.order = <<"origin", "agent">>],
                            UserAgentReason)
            ELSE LET r == [req EXCEPT !.called = @ \cup {"overload"},
                                      !.checked = @ \cup {"overload"},
                                      !.order = <<"origin", "agent", "overload">>]
                 IN IF AreQueuesOverloaded THEN Rejected(r, OverloadReason)
                    ELSE [r EXCEPT !.pc = "validate"]
  /\ UNCHANGED <<redis, clock, queueVars, costVars, rateVars, cacheVars, workerVars, session, shut>>

\* validateRequest: the size check, then req.json() and the schema; an
\* error thrown inside it is caught there and the request is not valid
ValidateRequest(v) ==
  /\ req.pc = "validate"
  /\ req' = IF v = "size"
              THEN Rejected([req EXCEPT !.order = Append(@, "validation")],
                            ValidationReason(v))
            ELSE LET r == [req EXCEPT !.bodyUsed = TRUE,
                                      !.order = Append(@, "validation")]
                 IN IF v = "valid" THEN [r EXCEPT !.pc = "rate"]
                    ELSE IF v = "threw"
                      THEN Rejected([r EXCEPT !.raised = @ \cup {"validate"}],
                                    ValidationReason(v))
                    ELSE Rejected(r, ValidationReason(v))
  /\ UNCHANGED <<redis, clock, queueVars, costVars, rateVars, cacheVars, workerVars, session, shut>>

\* checkMultiTierLimits inside performSecurityCheck; the store's limiter can
\* throw, and the catch then lets the request through
RateLimitCheck(admits, low, threw) ==
  /\ req.pc = "rate"
  /\ IF threw
       THEN /\ redis
            /\ low = {}
            /\ req' = FailOpen([req EXCEPT !.called = @ \cup {"rate"},
                                           !.raised = @ \cup {"rate"},
                                           !.order = Append(@, "rate_limit")])
            /\ UNCHANGED rateVars
       ELSE /\ CheckMultiTierLimitsWith(admits, low)
            /\ req' = LET r == [req EXCEPT !.called = @ \cup {"rate"},
                                           !.checked = @ \cup {"rate"},
                                           !.order = Append(@, "rate_limit"),
                                           !.tiers = TierResults(admits, low)]
                      IN IF rateResult'.success THEN [r EXCEPT !.pc = "cost"]
                         ELSE Rejected([r EXCEPT !.headers = RateLimitHeaders,
                                                 !.quota = Quota(rateResult')],
                                       rateResult'.message)
  /\ UNCHANGED <<redis, clock, queueVars, costVars, cacheVars, workerVars, session, shut>>

\* req.clone().json(), estimateRequestCost and checkCostLimits inside
\* performSecurityCheck; clone() of a used body and the store can throw
CostLimitCheck(a, readable, threw) ==
  /\ req.pc = "cost"
  /\ Rereads(req, readable)
  /\ LET r == [req EXCEPT !.reread = Reread(req, readable)]
     IN IF ~readable
          THEN /\ ~threw
               /\ req' = FailOpen([r EXCEPT !.raised = @ \cup {"cost"}])
               /\ UNCHANGED costVars
        ELSE IF threw
          THEN /\ redis
               /\ req' = FailOpen([r EXCEPT !.called = @ \cup {"cost"},
                                           !.raised = @ \cup {"cost"},
                                           !.order = Append(@, "cost_limit")])
               /\ UNCHANGED costVars
        ELSE /\ CheckCostLimitsCore(a)
             /\ req' = LET c == [r EXCEPT !.called = @ \cup {"cost"},
                                          !.checked = @ \cup {"cost"},
                                          !.order = Append(@, "cost_limit"),
                                          !.estimate = a]
                       IN IF costResult'.allowed
                            THEN [c EXCEPT !.pc = "parse",
                                           !.headers = AdmittedHeaders,
                                           !.quota = Quota(rateResult)]
                          ELSE Rejected(c, CostMessage(costResult'.reason))
  /\ UNCHANGED <<redis, clock, queueVars, rateVars, cacheVars, workerVars, session, shut>>

\* POST: await req.json(); a throw leaves the handler
ParseBody(readable) ==
  /\ req.pc = "parse"
  /\ Rereads(req, readable)
  /\ req' = IF readable
              THEN [req EXCEPT !.pc = "moderate", !.reread = Reread(req, readable),
                               !.bodyUsed = TRUE]
              ELSE [req EXCEPT !.pc = "done", !.reread = Reread(req, readable),
                               !.status = 500]
  /\ UNCHANGED <<redis, clock, queueVars, costVars, rateVars, cacheVars, workerVars, session, shut>>

\* POST: moderateText(rawUser)
ModerateText(ok) ==
  /\ req.pc = "moderate"
  /\ req' = IF ok THEN [req EXCEPT !.pc = "dispatch"]
            ELSE [req EXCEPT !.pc = "done", !.status = 400]
  /\ UNCHANGED <<redis, clock, queueVars, costVars, rateVars, cacheVars, workerVars, session, shut>>

\* POST: queueDecisionOperation(...) pushes the task on the decision pool
QueueDecision ==
  /\ req.pc = "dispatch"
  /\ submitted < MaxTasks
  /\ QueueOperationCore("decision")
  /\ req' = [req EXCEPT !.pc = "queued", !.dispatched = TRUE]
  /\ UNCHANGED <<redis, clock, costVars, rateVars, cacheVars, workerVars, session, shut>>

\* what the decision worker can return: the queued operation builds the
\* stream without awaiting anything, so it has settled before the timer of
\* createWorker can fire
DecisionOutcomes == {"success", "error"}

\* the decision worker returns: createUIMessageStream has built the stream
\* and started its execute callback, or it threw
DecisionReturns(o) ==
  /\ req.pc = "queued"
  /\ o \in DecisionOutcomes
  /\ WorkerReturnsCore("decision", o)
  /\ req' = IF o = "success" THEN [req EXCEPT !.pc = "record", !.gen = "streaming"]
            ELSE [req EXCEPT !.pc = "done", !.status = 500]
  /\ UNCHANGED <<redis, clock, costVars, rateVars, cacheVars, workerVars, session, shut>>

\* POST: await recordCost(clientId, costLimitResult.estimatedCost) is
\* called; without a store it returns at once and the response is built,
\* with a store POST waits for its reads and writes
RecordCostCalled ==
  /\ req.pc = "record"
  /\ IF redis
       THEN /\ req' = [req EXCEPT !.pc = "recording", !.commit = "pending"]
            /\ UNCHANGED costVars
       ELSE /\ RecordCostCore(req.estimate)
            /\ req' = [req EXCEPT !.pc = "done", !.commit = "skipped",
                                  !.costRecorded = TRUE, !.status = 200]
  /\ UNCHANGED <<redis, clock, queueVars, rateVars, cacheVars, workerVars, session, shut>>

\* POST: recordCost has written the ledger, or it threw and the catch of
\* POST logged the error; then the response is built around the stream
RecordEstimatedCost(threw) ==
  /\ req.pc = "recording"
  /\ IF threw
       THEN /\ req' = [req EXCEPT !.pc = "done", !.commit = "failed", !.status = 200]
            /\ UNCHANGED costVars
       ELSE /\ RecordCostCore(req.estimate)
            /\ req' = [req EXCEPT !.pc = "done", !.commit = "done",
                                  !.costRecorded = TRUE, !.status = 200]
  /\ UNCHANGED <<redis, clock, queueVars, rateVars, cacheVars, workerVars, session, shut>>

\* mutant of ToolReady: a tool can be called whatever the request has done
ToolReadyAnytime == req.tool = "idle"

\* a tool is called by streamText, inside the execute callback of the stream
ToolReady == req.gen = "streaming" /\ req.tool = "idle"

\* aiRiskTool.execute: getCachedAgentResponse first
ToolLookup(i, down) ==
  /\ ToolReady
  /\ req.toolCalls < MaxToolCalls
  /\ GetHierarchicalCacheCore(i, "aiRisk", TRUE, down)
  /\ req' = [req EXCEPT !.toolCalls = @ + 1, !.toolInput = i, !.lookedUp = TRUE,
                        !.tool = IF cacheResult'.hit THEN "idle" ELSE "evidence",
                        !.answered = IF cacheResult'.hit
                                       THEN @ \cup {req.toolCalls + 1} ELSE @]
  /\ UNCHANGED <<redis, clock, queueVars, costVars, rateVars, workerVars, session, shut>>

\* retrieveEvidence: getExactCache(query, { topK, domain })
ToolEvidence(down) ==
  /\ req.tool = "evidence"
  /\ GetLevelCacheCore("exact", req.toolInput, EvidenceContext, down)
  /\ req' = [req EXCEPT !.tool = IF cacheResult'.hit THEN "generate" ELSE "vector"]
  /\ UNCHANGED <<redis, clock, queueVars, costVars, rateVars, workerVars, session, shut>>

\* retrieveEvidence: queueVectorOperation(...) pushes the Pinecone query
ToolQueueVector ==
  /\ req.tool = "vector"
  /\ submitted < MaxTasks
  /\ QueueOperationCore("vector")
  /\ req' = [req EXCEPT !.tool = "retrieving"]
  /\ UNCHANGED <<redis, clock, costVars, rateVars, cacheVars, workerVars, session, shut>>

\* retrieveEvidence: the vector worker returns; the evidence is cached with
\* setExactCache, or the failure is thrown and ends the tool call
ToolVectorReturns(o, down) ==
  /\ req.tool = "retrieving"
  /\ WorkerReturnsCore("vector", o)
  /\ IF o = "success"
       THEN /\ SetLevelCacheCore("exact", req.toolInput, EvidenceContext, down)
            /\ req' = [req EXCEPT !.tool = "generate",
                                  !.cached = @ \cup {req.toolCalls}]
       ELSE /\ req' = [req EXCEPT !.tool = "idle",
                                  !.timedOut = IF o = "timeout"
                                                 THEN @ \cup {req.toolCalls} ELSE @]
            /\ UNCHANGED cacheVars
  /\ UNCHANGED <<redis, clock, costVars, rateVars, workerVars, session, shut>>

\* aiRiskTool.execute: generateText
ToolGenerate ==
  /\ req.tool = "generate"
  /\ req' = [req EXCEPT !.tool = "store"]
  /\ UNCHANGED <<redis, clock, queueVars, costVars, rateVars, cacheVars, workerVars, session, shut>>

\* aiRiskTool.execute: setCachedAgentResponse, then the text is returned
ToolStore(down) ==
  /\ req.tool = "store"
  /\ SetHierarchicalCacheCore(req.toolInput, "aiRisk", TRUE, down)
  /\ req' = [req EXCEPT !.tool = "idle", !.cached = @ \cup {req.toolCalls},
                        !.answered = @ \cup {req.toolCalls}]
  /\ UNCHANGED <<redis, clock, queueVars, costVars, rateVars, workerVars, session, shut>>

\* streamText reaches its end: the generation is complete
GenerationFinishes ==
  /\ req.gen = "streaming"
  /\ req.tool = "idle"
  /\ req' = [req EXCEPT !.gen = "finished"]
  /\ UNCHANGED <<redis, clock, queueVars, costVars, rateVars, cacheVars, workerVars, session, shut>>

NextRequest ==
  \/ \E originOk \in BOOLEAN, uaOk \in BOOLEAN : SecurityGate(originOk, uaOk)
  \/ \E v \in ValidationOutcomes : ValidateRequest(v)
  \/ \E admits \in [Tiers -> BOOLEAN], low \in LowSets, threw \in BOOLEAN :
       RateLimitCheck(admits, low, threw)
  \/ \E a \in Amounts, readable \in BOOLEAN, threw \in BOOLEAN :
       CostLimitCheck(a, readable, threw)
  \/ \E readable \in BOOLEAN : ParseBody(readable)
  \/ \E ok \in BOOLEAN : ModerateText(ok)
  \/ QueueDecision
  \/ \E o \in DecisionOutcomes : DecisionReturns(o)
  \/ RecordCostCalled
  \/ \E threw \in BOOLEAN : RecordEstimatedCost(threw)
  \/ \E i \in Inputs, down \in BOOLEAN : ToolLookup(i, down)
  \/ \E down \in BOOLEAN : ToolEvidence(down)
  \/ ToolQueueVector
  \/ \E o \in WorkerOutcomes, down \in BOOLEAN : ToolVectorReturns(o, down)
  \/ ToolGenerate
  \/ \E down \in BOOLEAN : ToolStore(down)
  \/ GenerationFinishes
  \/ LateSettle("vector")
  \/ QueueOperation("pdf")

(***************************************************************************)
(* One pool, task by task                                                  *)
(*                                                                         *)
(* The tasks of one pool with their times: the push of queueXOperation,    *)
(* the worker createWorker that fastq starts for a task at once or when a  *)
(* slot is released, the race of the operation against the timeout timer,  *)
(* and the QueueResult the worker returns.  Times are in whole seconds; a  *)
(* timer fires when its delay has passed, before the clock goes on.        *)
(***************************************************************************)
MaxWorkerTasks == 4
MaxNow == 45
WorkerStep == 15

DECISION_QUEUE_TIMEOUT == 45
PDF_QUEUE_TIMEOUT == 30

\* the pools whose timeouts fall on the steps of the clock
WorkerPools == {"decision", "pdf"}

\* QUEUE_CONFIG.<pool>.timeout, the second argument of createWorker
Timeout(p) ==
  CASE p = "decision" -> DECISION_QUEUE_TIMEOUT
    [] p = "pdf"      -> PDF_QUEUE_TIMEOUT

WorkerTasks == 1..MaxWorkerTasks

NoQueueResult == [none |-> TRUE]

NoTask == [st |-> "idle", startTime |-> 0, seen |-> 0, queueTime |-> 0,
           execStart |-> 0, op |-> "none", result |-> NoQueueResult]

InitWorker ==
  /\ wPool = "none"
  /\ wNow = 0
  /\ wTasks = [t \in WorkerTasks |-> NoTask]
  /\ wQueue = <<>>
  /\ wReturned = 0

\* the QueueResult of createWorker: the try branch and the catch branch
QueueResult(tk, outcome, now) ==
  [success |-> outcome = "success",
   data |-> IF outcome = "success" THEN "value" ELSE "none",
   error |-> CASE outcome = "success" -> "none"
               [] outcome = "error"   -> "operation error"
               [] outcome = "timeout" -> "Operation timed out",
   queueTime |-> tk.queueTime,
   executionTime |-> now - tk.execStart]

\* fastq running(): the workers in flight
RunningTasks == {t \in WorkerTasks : wTasks[t].st = "running"}

\* createWorker begins: queueTime = Date.now() - task.startTime, and the
\* operation is called
StartWorker(tk, now) ==
  [tk EXCEPT !.st = "running", !.queueTime = now - tk.startTime,
             !.execStart = now, !.op = "pending"]

\* fastq release: the head of the queue gets the slot of the worker that
\* returned
Release(ts, now) ==
  IF wQueue = <<>> THEN ts
  ELSE [ts EXCEPT ![Head(wQueue)] = StartWorker(@, now)]

\* mutant of WorkerStartsNow: every pushed task is started at once
WorkerStartsNowNoCap(p) == TRUE

\* fastq push: the worker is called at once when fewer than `concurrency`
\* workers are running
WorkerStartsNow(p) == Cardinality(RunningTasks) < Concurrency(p)

\* queueXOperation: startTime = Date.now(), then push; fastq calls the worker
\* at once when fewer than `concurrency` are running
Submit(p, t) ==
  /\ p \in WorkerPools
  /\ wPool \in {"none", p}
  /\ wPool' = p
  /\ wTasks[t].st = "idle"
  /\ \A u \in WorkerTasks : u < t => wTasks[u].st # "idle"
  /\ LET tk == [wTasks[t] EXCEPT !.st = "waiting", !.startTime = wNow,
                                 !.seen = wReturned]
     IN IF WorkerStartsNow(p)
          THEN /\ wTasks' = [wTasks EXCEPT ![t] = StartWorker(tk, wNow)]
               /\ UNCHANGED wQueue
          ELSE /\ wTasks' = [wTasks EXCEPT ![t] = tk]
               /\ wQueue' = Append(wQueue, t)
  /\ UNCHANGED <<wNow, wReturned>>
  /\ UNCHANGED notWorker

\* the operation settles before the timer has fired: Promise.race takes its
\* value or its error, and the worker returns
OperationSettles(t, outcome) ==
  /\ outcome \in {"success", "error"}
  /\ wTasks[t].st = "running"
  /\ LET tk == [wTasks[t] EXCEPT !.st = "returned", !.op = outcome,
                                 !.result = QueueResult(wTasks[t], outcome, wNow)]
     IN wTasks' = Release([wTasks EXCEPT ![t] = tk], wNow)
  /\ wQueue' = IF wQueue = <<>> THEN wQueue ELSE Tail(wQueue)
  /\ wReturned' = wReturned + 1
  /\ UNCHANGED <<wPool, wNow>>
  /\ UNCHANGED notWorker

\* the timer fires while the operation is pending: Promise.race rejects with
\* "Operation timed out" and the worker returns; the operation goes on
TimerFires(t) ==
  /\ wTasks[t].st = "running"
  /\ wNow >= wTasks[t].execStart + Timeout(wPool)
  /\ LET tk == [wTasks[t] EXCEPT !.st = "returned",
                                 !.result = QueueResult(wTasks[t], "timeout", wNow)]
     IN wTasks' = Release([wTasks EXCEPT ![t] = tk], wNow)
  /\ wQueue' = IF wQueue = <<>> THEN wQueue ELSE Tail(wQueue)
  /\ wReturned' = wReturned + 1
  /\ UNCHANGED <<wPool, wNow>>
  /\ UNCHANGED notWorker

\* mutant of SettledLate: the late settlement replaces the reported result
SettledLateOverwrites(tk, outcome, now) ==
  [tk EXCEPT !.op = outcome, !.result = QueueResult(tk, outcome, now)]

\* the operation of a timed-out task settles: the race is over, nothing
\* reads the settlement
SettledLate(tk, outcome, now) == [tk EXCEPT !.op = outcome]

OperationSettlesLate(t, outcome) ==
  /\ outcome \in {"success", "error"}
  /\ wTasks[t].st = "returned"
  /\ wTasks[t].op = "pending"
  /\ wTasks' = [wTasks EXCEPT ![t] = SettledLate(@, outcome, wNow)]
  /\ UNCHANGED <<wPool, wNow, wQueue, wReturned>>
  /\ UNCHANGED notWorker

\* time passes; a timer whose delay has passed fires first
TickWorker ==
  /\ wPool # "none"
  /\ wNow < MaxNow
  /\ \A t \in RunningTasks : wNow < wTasks[t].execStart + Timeout(wPool)
  /\ wNow' = wNow + WorkerStep
  /\ UNCHANGED <<wPool, wTasks, wQueue, wReturned>>
  /\ UNCHANGED notWorker

NextWorker ==
  \/ \E p \in WorkerPools, t \in WorkerTasks : Submit(p, t)
  \/ \E t \in WorkerTasks, o \in {"success", "error"} : OperationSettles(t, o)
  \/ \E t \in WorkerTasks : TimerFires(t)
  \/ \E t \in WorkerTasks, o \in {"success", "error"} : OperationSettlesLate(t, o)
  \/ TickWorker

(***************************************************************************)
(* Reserve and commit of one client, one call at a time                    *)
(***************************************************************************)
NoSession == [estimate |-> -1, overrun |-> FALSE,
              admitted |-> 0, hour |-> <<0, 0, 0, 0>>, reached |-> FALSE,
              passed |-> 0, reading |-> [none |-> TRUE]]

InitSession == session = NoSession

\* reserve: checkCostLimits(clientId, estimate) as performSecurityCheck
\* calls it
Reserve(e) ==
  /\ CheckCostLimitsCore(e)
  /\ session' = [session EXCEPT !.estimate = IF costResult'.allowed THEN e ELSE -1]
  /\ UNCHANGED <<redis, clock, queueVars, rateVars, cacheVars, req, workerVars, shut>>

\* commit: recordCost(clientId, actual) after a reserve that was allowed
Commit(a) ==
  /\ session.estimate >= 0
  /\ records < MaxRecords
  /\ RecordCostCore(a)
  /\ session' = [session EXCEPT !.estimate = -1,
                                !.overrun = @ \/ a > session.estimate]
  /\ UNCHANGED <<redis, clock, queueVars, rateVars, cacheVars, req, workerVars, shut>>

NextLedger ==
  \/ \E e \in Amounts : Reserve(e)
  \/ \E a \in Amounts : Commit(a)
  \/ TickHour
  \/ TickDay

(***************************************************************************)
(* Admission of one client's requests, one after another: the rate-limit   *)
(* and cost-limit steps of performSecurityCheck and its catch.  All the    *)
(* instants of one modelled hour lie within one minute.                    *)
(***************************************************************************)
MaxAdmitted == 6

\* the requests admitted so far in the hour of the clock
AdmittedNow ==
  IF session.hour = HourStamp(clock) THEN session.admitted ELSE 0

\* whether a rate check of the hour of the clock got an answer from a limiter
ReachedNow == session.hour = HourStamp(clock) /\ session.reached

\* performSecurityCheck from step 5 on, for a request that passed the
\* earlier steps: checkMultiTierLimits, then req.clone() and
\* checkCostLimits; a throw of either (a store that cannot be reached, a
\* body that cannot be cloned) is caught and the request is allowed
Admit(admits, rateThrew, costThrew, e) ==
  /\ AdmittedNow < MaxAdmitted
  /\ ~redis => winCalls < MaxCalls \/ Expired(limiter["basic"], clock)
  /\ rateThrew => redis /\ ~costThrew
  /\ IF rateThrew
       THEN UNCHANGED <<rateVars, costVars>>
       ELSE /\ CheckMultiTierLimitsCore(admits)
            /\ IF rateResult'.success /\ ~costThrew
                 THEN CheckCostLimitsCore(e)
                 ELSE UNCHANGED costVars
  /\ LET allowed == IF rateThrew THEN TRUE
                    ELSE IF ~rateResult'.success THEN FALSE
                    ELSE IF costThrew THEN TRUE
                    ELSE costResult'.allowed
     IN session' = [session EXCEPT
                      !.hour = HourStamp(clock),
                      !.reached = ReachedNow \/ ~rateThrew,
                      !.admitted = IF allowed THEN AdmittedNow + 1 ELSE AdmittedNow]
  /\ UNCHANGED <<redis, clock, queueVars, cacheVars, req, workerVars, shut>>

NextAdmit ==
  \/ \E admits \in [Tiers -> BOOLEAN], rateThrew, costThrew \in BOOLEAN, e \in Amounts :
        Admit(admits, rateThrew, costThrew, e)
  \/ TickMs
  \/ TickHour
  \/ TickDay

Init ==
  /\ redis \in BOOLEAN
  /\ InitQueue
  /\ InitClock
  /\ InitCost
  /\ InitRate
  /\ InitCache
  /\ InitRequest
  /\ InitWorker
  /\ InitSession

SpecQueue == Init /\ [][NextQueue]_vars

\* the pools with calls of shutdownQueues, every worker returning in the end
SpecDrain == Init /\ [][NextDrain]_vars /\ DrainFairness

\* concurrent ledger calls of two requests of the same client
NextCostRace ==
  \/ NextCost(Procs, {1})
  \/ TickHour

SpecCostRace == Init /\ [][NextCostRace]_vars

\* the quota ledger: request-count limiters and cost ledger of one client,
\* used by one request at a time
\* recordCost with a store; without one it returns at once and leaves
\* everything the quota checks read as it is
RecordCostStored(a) ==
  /\ redis
  /\ RecordCost(a)

\* (the clock stays within one day here; the day boundary is crossed under
\* SpecReset and SpecLedger)
NextQuota ==
  \/ \E a \in Amounts : CheckCostLimits(a)
  \/ \E a \in Amounts : RecordCostStored(a)
  \/ NextRate
  \/ TickMs
  \/ TickHour

SpecQuota == Init /\ [][NextQuota]_vars

MaxResetCalls == 3

\* the counters of one client over the window boundaries: the ledger in the
\* store and the records of the in-memory limiters, a few calls of each kind
\* between the ticks of the clock
NextReset ==
  \/ \E a \in Amounts : CheckCostLimits(a)
  \/ \E a \in Amounts : RecordCostStored(a)
  \/ ~redis /\ winCalls < MaxResetCalls /\ CheckMultiTierLimits
  \/ TickMs
  \/ TickHour
  \/ TickDay

SpecReset == Init /\ [][NextReset]_vars

\* the cache hierarchy over time
NextCacheTime ==
  \/ NextCache
  \/ TickMs
  \/ TickHour
  \/ TickDay

SpecCache == Init /\ [][NextCacheTime]_vars

MaxWeekDay == 8

\* seven days pass
TickWeek ==
  /\ clock.day + 7 <= MaxWeekDay
  /\ clock' = [clock EXCEPT !.day = @ + 7, !.hr = 0, !.ms = 0]
  /\ recorded' = [recorded EXCEPT !.hourly = 0, !.daily = 0]
  /\ committed' = [committed EXCEPT !.hourly = 0, !.daily = 0]
  /\ dirty' = (dirty \/ LedgerBusy)
  /\ UNCHANGED <<ledger, pc, costData, amount, costResult, records>>
  /\ UNCHANGED notClock

MaxEmbedStores == 1

\* the embedding memo over time, filled by getCachedEmbedding on its own and
\* by setSemanticCache
NextEmbed ==
  \/ \E t \in Inputs, fail \in EmbedFailures : GetCachedEmbedding(t, fail)
  \/ \E i \in Inputs, down \in BOOLEAN :
       cacheOps < MaxEmbedStores /\ SetLevelCache("semantic", i, "aiRisk", down)
  \/ TickHour
  \/ TickWeek

SpecEmbed == Init /\ [][NextEmbed]_vars

\* one request from its arrival to its answer and the end of its generation
SpecRequest == Init /\ [][NextRequest]_vars

\* the tasks of one pool from their submission to their results
SpecWorker == Init /\ [][NextWorker]_vars

\* reserve and commit calls of one client over the hours of two days
SpecLedger == Init /\ [][NextLedger]_vars

\* one client's requests passing the rate and cost steps of admission
SpecAdmit == Init /\ [][NextAdmit]_vars

\* C1: in every reachable state, the number of tasks a pool is running is at
\* most the pool's concurrency cap, and a submission waits in the queue only
\* while the pool is running at its cap
C1_RunningWithinCap ==
  \A p \in Pools :
    /\ qRunning[p] <= Concurrency(p)
    /\ (qLen[p] > 0 => qRunning[p] = Concurrency(p))

\* the widest pool running at its cap with one more submission waiting
C1_Witness ==
  /\ qRunning["vector"] = VECTOR_QUEUE_CONCURRENCY
  /\ qLen["vector"] >= 1


\* a step of checkMultiTierLimits: it opens a window or counts a call
RateStep == limiter' # limiter \/ winCalls' # winCalls

\* the count family t would be exceeded by one more request: the window
\* is open and count + 1 > limit
CountExceeded(t) ==
  IF Expired(limiter[t], clock) THEN FALSE ELSE limiter[t].count + 1 > TierLimit(t)

\* the first element of the sequence order for which exceeded holds, "none"
\* if there is none
RECURSIVE FirstIn(_, _)
FirstIn(order, exceeded) ==
  IF order = <<>> THEN "none"
  ELSE IF exceeded[Head(order)] THEN Head(order)
  ELSE FirstIn(Tail(order), exceeded)

\* the cost families a check found exceeded: current + amount > limit
CostExceeded(r) ==
  [hourly |-> r.currentUsage.hourly + r.estimatedCost > DEFAULT_HOURLY_LIMIT,
   daily |-> r.currentUsage.daily + r.estimatedCost > DEFAULT_DAILY_LIMIT,
   monthly |-> r.currentUsage.monthly + r.estimatedCost > DEFAULT_MONTHLY_LIMIT]

\* C2 (as stated): updates of the quota windows are atomic increments, so once
\* all recordCost calls of a window have returned the ledger holds the sum of
\* the amounts they recorded
C2_NoLostUpdate ==
  (~LedgerBusy /\ ~dirty) => Usage = recorded

\* C3 (as stated): the cost families are looked at tightest first, hourly,
\* daily, monthly, and the rejection names the first one exceeded in that order
C3_TightestFirst ==
  costResult.reason # "unset" =>
    costResult.reason = FirstIn(<<"hourly", "daily", "monthly">>, CostExceeded(costResult))

\* C3 (amended): the cost families are looked at in the order daily, hourly,
\* monthly and the count families in the order per-minute (basic), hourly
\* (burst), daily; a cost family is exceeded exactly when current + amount >
\* limit, a count family of the in-memory limiter when count + 1 > limit
\* within its window; a request is allowed exactly when no family is exceeded
\* and a rejection names the first exceeded family in that order
C3_CodeOrder ==
  /\ [](costResult.reason # "unset" =>
          /\ costResult.reason =
               FirstIn(<<"daily", "hourly", "monthly">>, CostExceeded(costResult))
          /\ costResult.allowed <=> costResult.reason = "none")
  /\ [](rateResult.tier # "unset" =>
          LET first == FirstIn(<<"basic", "burst", "daily">>,
                                     [t \in Tiers |-> ~tierSuccess[t]])
          IN /\ rateResult.success <=> first = "none"
             /\ ~rateResult.success => rateResult.tier = first)
  /\ [][RateStep => \A t \in Tiers : tierSuccess'[t] <=> ~CountExceeded(t)]_vars

\* a check rejected as daily a request that was over the hourly limit too,
\* and a request was rejected as per-minute (basic) while the hourly (burst)
\* limiter refused it as well
C3_Witness ==
  /\ costResult.reason = "daily"
  /\ CostExceeded(costResult)["hourly"]
  /\ ~rateResult.success
  /\ rateResult.tier = "basic"
  /\ ~tierSuccess["burst"]

LookupStep == cacheOps' = cacheOps + 1 /\ cacheOp'.kind = "get"
HierStep == LookupStep /\ cacheOp'.api = "hier"

\* a lookup at level l that follows, in the same instant, a store at level l
\* of the same input with the same context and pattern
RoundTripStep(l) ==
  /\ LookupStep
  /\ cacheOp.kind = "set"
  /\ cacheOp.api = l
  /\ cacheOp'.api = l
  /\ cacheOp'.input = cacheOp.input
  /\ cacheOp'.agent = cacheOp.agent
  /\ cacheOp'.pattern = cacheOp.pattern
  /\ cacheOp'.at = cacheOp.at

\* the lookup returned a hit at level l carrying the value the store wrote
RoundTripHit(l) ==
  /\ cacheResult'.hit
  /\ cacheResult'.source = l
  /\ cacheResult'.data = [by |-> cacheOp.agent, for |-> cacheOp.input, at |-> cacheOp.at]

\* C5 (as stated): a semantic hit returned to a lookup of an agent type
\* never has a similarity below the threshold configured for that agent type
C5_AgentThreshold ==
  (cacheOp.kind = "get" /\ cacheOp.api = "hier" /\ cacheResult.source = "semantic")
    => SimGE(cacheResult.similarity, AgentThreshold(cacheOp.agent))

\* C6 (as stated): an entry stored at time t with TTL T is absent at every
\* time after t + T, whatever lookups touched it
C6_FixedExpiry ==
  \A k \in CacheKeys :
    Present(store, k, Seconds(clock)) =>
      Seconds(clock) <= store[k].timestamp + store[k].ttl

C8_ProbeOrder ==
  [][HierStep =>
       LET q == Query(cacheOp'.input, cacheOp'.agent, cacheOp'.pattern,
                      cacheOp'.scanned, cacheOp'.down)
           order == IF q.pattern THEN <<"exact", "semantic", "partial">>
                    ELSE <<"exact", "semantic">>
           first == FirstIn(order, [l \in Levels |->
                                      ProbeLevel(l, store, q, Seconds(clock)).hit])
       IN /\ cacheResult'.hit <=> first # "none"
          /\ cacheResult'.source = (IF first = "none" THEN "miss" ELSE first)
          /\ \E n \in 1..Len(order) :
               /\ cacheResult'.probed = SubSeq(order, 1, n)
               /\ (first # "none" => order[n] = first)
               /\ (first = "none" => n = Len(order))]_vars

\* a hierarchical lookup missed at the exact and the semantic level and hit
\* at the partial level
C8_Witness ==
  /\ cacheOp.kind = "get"
  /\ cacheOp.api = "hier"
  /\ cacheResult.source = "partial"
  /\ cacheResult.probed = <<"exact", "semantic", "partial">>

\* a step in which the request makes one of its capacity or quota checks
CheckStep == req'.called # req.called

\* the step that hands the request's work to the decision pool
DispatchStep == ~req.dispatched /\ req'.dispatched

\* the step in which POST calls recordCost
RecordStep == ~req.costRecorded /\ req'.costRecorded

C10_ReserveDispatchCommit ==
  [][/\ DispatchStep => {"rate", "cost"} \subseteq req.checked
     /\ RecordStep => req.gen = "finished"]_vars

\* C11 as stated: for a tool call of the request whose vector task timed
\* out, nothing was cached by that call and no cost has been committed for
\* the request, also after the timed-out operation has finished
C11_TimedOutKeepsNothing ==
  \A c \in req.timedOut : c \notin req.cached /\ ~req.costRecorded

\* a step in which checkCostLimits is called and nothing else happens
CostCheckStep ==
  /\ costResult' # costResult \/ ledger' # ledger
  /\ records' = records
  /\ clock' = clock

C13_UnreachableStillLimits ==
  redis /\ ~ReachedNow => AdmittedNow <= CHAT_BASIC_LIMIT

\* a cache operation during which the store throws
FailedCacheStep == cacheOps' = cacheOps + 1 /\ cacheOp'.down

\* C14: a lookup (hierarchical or of one level) during which the store
\* throws returns a miss carrying no data, and a store operation during which
\* the store throws returns to its caller leaving the store and the last
\* result as they were
C14_CacheFailsOpen ==
  [][FailedCacheStep =>
       /\ store' = store
       /\ cacheOp'.kind = "get" =>
            /\ ~cacheResult'.hit
            /\ cacheResult'.source = "miss"
            /\ cacheResult'.data = NoValue
       /\ cacheOp'.kind = "set" => cacheResult' = cacheResult]_vars

\* a lookup met a store error while the entry it asked for was in the store
C14_Witness ==
  /\ redis
  /\ cacheOp.kind = "get" /\ cacheOp.down
  /\ Present(store, ExactKey(cacheOp.input, cacheOp.agent), Seconds(clock))
  /\ ~cacheResult.hit

\* a step of performSecurityCheck in which an error is raised
RaiseStep == req'.raised # req.raised

CheckOf(reason) ==
  IF reason = OriginReason THEN "origin"
  ELSE IF reason = UserAgentReason THEN "agent"
  ELSE IF reason = OverloadReason THEN "overload"
  ELSE IF reason \in {ValidationReason(v) : v \in ValidationOutcomes \ {"valid"}}
    THEN "validation"
  ELSE IF reason \in {TierMessage(t) : t \in Tiers} THEN "rate_limit"
  ELSE IF reason \in MentionsCostLimit THEN "cost_limit"
  ELSE "none"

\* C16 as stated: the answer to a request performSecurityCheck rejected
\* carries the tag of the failed check as its code, a retry-after hint, and
\* the numeric limit, remaining and reset time
C16_MachineReadable ==
  (req.pc = "done" /\ req.code = SecurityCode) =>
     /\ req.code = CheckOf(req.reason)
     /\ "Retry-After" \in req.headers
     /\ {"RateLimit-Limit", "RateLimit-Remaining", "RateLimit-Reset"} \subseteq req.headers

\* the order the security guide gives the checks
CheckOrder == <<"origin", "agent", "overload", "validation", "rate_limit", "cost_limit">>

\* the request was rejected by performSecurityCheck
SecurityRejected == req.pc = "done" /\ req.code = SecurityCode

\* C17: the checks a request has gone through are the first ones of the
\* order origin, user agent, overload, validation, rate limiting, cost
\* limits; a rejected request was rejected by the last check it went
\* through, and if that was origin, user agent, overload or validation, no
\* limiter was called and no limiter record or ledger entry has changed
C17_CheckOrder ==
  /\ Len(req.order) <= Len(CheckOrder)
  /\ req.order = SubSeq(CheckOrder, 1, Len(req.order))
  /\ SecurityRejected =>
       /\ req.order # <<>>
       /\ CheckOf(req.reason) = req.order[Len(req.order)]
       /\ CheckOf(req.reason) \in {"origin", "agent", "overload", "validation"} =>
            /\ req.called \subseteq {"overload"}
            /\ limiter = [t \in Tiers |-> NoRec]
            /\ winCalls = 0
            /\ ledger = NoData
            /\ records = 0

\* a request with an allowed origin and user agent, met by pools that were
\* not overloaded, was rejected by validateRequest
C17_Witness ==
  /\ SecurityRejected
  /\ CheckOf(req.reason) = "validation"
  /\ req.order = <<"origin", "agent", "overload", "validation">>

\* the step in which performSecurityCheck makes its overload check
OverloadCheckStep == req.pc = "start" /\ Len(req'.order) = 3

\* C18: when performSecurityCheck reaches its overload check it rejects the
\* request, as overloaded and with nothing submitted to any pool, exactly
\* when in some pool the queued and the running tasks together are more than
\* eight tenths of the pool's intervalCap; a request rejected so is never
\* dispatched and none of its tools runs
C18_OverloadRejects ==
  [][/\ OverloadCheckStep =>
          /\ (\E p \in Pools : 10 * (qLen[p] + qRunning[p]) > 8 * IntervalCap(p))
               <=> req'.reason = OverloadReason
          /\ <<qLen, qRunning, submitted>>' = <<qLen, qRunning, submitted>>
     /\ req'.reason = OverloadReason =>
          /\ req'.pc = "done"
          /\ req'.status = 503
          /\ ~req'.dispatched
          /\ req'.toolCalls = 0]_vars

\* a request was rejected while the PDF pool held five tasks
C18_Witness ==
  /\ req.reason = OverloadReason
  /\ qLen["pdf"] + qRunning["pdf"] = 5
  /\ \A p \in Pools \ {"pdf"} : qLen[p] + qRunning[p] = 0

\* the first concurrency + 1 tasks of pool p were submitted at the same time
\* to the idle pool, before any worker had returned
Batch(p) ==
  /\ wPool = p
  /\ \A t \in 1..(Concurrency(p) + 1) :
       /\ wTasks[t].st # "idle"
       /\ wTasks[t].seen = 0
       /\ wTasks[t].startTime = wTasks[1].startTime

\* the task of such a batch that found no free worker
Extra(p) == wTasks[Concurrency(p) + 1]

\* the time at which the worker of task t returned
ReturnTime(t) == wTasks[t].execStart + wTasks[t].result.executionTime

\* C19 as stated: of concurrency + 1 tasks submitted together to an idle
\* pool, the first `concurrency` report a queueTime of 0 and the remaining
\* one, once started, a queueTime above 0
C19_ExtraWaitsMeasurably ==
  \A p \in WorkerPools :
    Batch(p) =>
      /\ \A t \in 1..Concurrency(p) : wTasks[t].queueTime = 0
      /\ Extra(p).st # "waiting" => Extra(p).queueTime > 0

\* C19: of concurrency + 1 tasks submitted together to an idle pool, the
\* first `concurrency` are started by their push with a queueTime of 0, and
\* the remaining one waits exactly until the first worker has returned (its
\* operation settled or its timer fired) and is started at that time, with
\* the time it waited as its queueTime, which may be 0
C19_ExtraWaitsForRelease ==
  \A p \in WorkerPools :
    Batch(p) =>
      /\ \A t \in 1..Concurrency(p) :
           /\ wTasks[t].st \in {"running", "returned"}
           /\ wTasks[t].queueTime = 0
           /\ wTasks[t].execStart = wTasks[t].startTime
      /\ Extra(p).st = "waiting" <=> wReturned = 0
      /\ Extra(p).st # "waiting" =>
           /\ \E u \in 1..Concurrency(p) :
                /\ wTasks[u].st = "returned"
                /\ Extra(p).execStart = ReturnTime(u)
           /\ \A u \in 1..Concurrency(p) :
                wTasks[u].st = "returned" => Extra(p).execStart <= ReturnTime(u)
           /\ Extra(p).queueTime = Extra(p).execStart - Extra(p).startTime

\* four tasks were pushed together on the idle decision pool and the fourth
\* was started when the timer of one of the first three fired
C19_Witness ==
  /\ Batch("decision")
  /\ Extra("decision").st = "running"
  /\ Extra("decision").queueTime = DECISION_QUEUE_TIMEOUT
  /\ \E u \in 1..DECISION_QUEUE_CONCURRENCY :
       /\ wTasks[u].st = "returned"
       /\ wTasks[u].result.error = "Operation timed out"

\* the worker of task t returns in this step
ReturnStep(t) == wTasks[t].st = "running" /\ wTasks'[t].st = "returned"

\* C20: a worker returns the operation's value as a success or the
\* operation's error as a failure when the operation settled first, and the
\* failure "Operation timed out" when the timer fired while the operation
\* was pending, which happens no earlier than the timeout after the worker
\* began; what a worker has returned never changes afterwards, also when
\* the operation settles later
C20_RaceDecides ==
  [][\A t \in WorkerTasks :
       /\ ReturnStep(t) =>
            LET r == wTasks'[t].result
            IN /\ r.queueTime = wTasks[t].queueTime
               /\ r.executionTime = wNow - wTasks[t].execStart
               /\ CASE wTasks'[t].op = "success" ->
                         r.success /\ r.data = "value" /\ r.error = "none"
                    [] wTasks'[t].op = "error" ->
                         ~r.success /\ r.data = "none" /\ r.error = "operation error"
                    [] wTasks'[t].op = "pending" ->
                         /\ ~r.success /\ r.data = "none"
                         /\ r.error = "Operation timed out"
                         /\ r.executionTime >= Timeout(wPool)
       /\ wTasks[t].st = "returned" =>
            /\ wTasks'[t].st = "returned"
            /\ wTasks'[t].result = wTasks[t].result]_vars

\* the operation of a task that was reported as timed out has settled with
\* a value since
C20_Witness ==
  \E t \in WorkerTasks :
    /\ wTasks[t].st = "returned"
    /\ wTasks[t].op = "success"
    /\ wTasks[t].result.error = "Operation timed out"

\* call c of shutdownQueues returns in this step
ResolveStep(c) == shut.st[c] # "resolved" /\ shut'.st[c] = "resolved"

\* C21 as stated: a call of shutdownQueues returns only when no pool has a
\* queued or a running task, and every call returns in the end, the workers
\* in flight all returning, also when two calls are pending together
C21_DrainResolves ==
  /\ [][\A c \in Callers :
          ResolveStep(c) => \A p \in Pools : qLen'[p] = 0 /\ qRunning'[p] = 0]_vars
  /\ \A c \in Callers : (shut.st[c] = "waiting") ~> (shut.st[c] = "resolved")

\* C22 as stated: once shutdownQueues has been called no pool accepts a
\* submission
C22_DrainStopsSubmissions ==
  [][(\E c \in Callers : shut.st[c] # "idle") => submitted' = submitted]_vars

\* a step of clearAllQueues
KillStep ==
  \E p \in Pools : qLost'[p] > qLost[p] \/ qOrphans'[p] > qOrphans[p]

\* a submission to pool p
SubmitStep(p) ==
  /\ submitted' = submitted + 1
  /\ qLen'[p] + qRunning'[p] = qLen[p] + qRunning[p] + 1

\* C23: clearAllQueues leaves every pool with nothing queued and nothing
\* running, the queued tasks dropped and the workers in flight left to the
\* instances it killed; whatever was killed before, a submission to a pool
\* with fewer than `concurrency` workers running is started at once
C23_HardKill ==
  [][/\ KillStep =>
          \A p \in Pools :
            /\ qLen'[p] = 0 /\ qRunning'[p] = 0
            /\ qLost'[p] = qLost[p] + qLen[p]
            /\ qOrphans'[p] = qOrphans[p] + qRunning[p]
     /\ \A p \in Pools :
          SubmitStep(p) =>
            IF qRunning[p] < Concurrency(p)
              THEN qRunning'[p] = qRunning[p] + 1 /\ qLen'[p] = qLen[p]
              ELSE qLen'[p] = qLen[p] + 1 /\ qRunning'[p] = qRunning[p]]_vars

\* the PDF pool was killed with a task running and a task waiting, and a
\* task submitted since is running
C23_Witness ==
  /\ qOrphans["pdf"] = 1
  /\ qLost["pdf"] = 1
  /\ qRunning["pdf"] = 1
  /\ qLen["pdf"] = 0

\* C24 as stated: while the ledger commit of a request is in progress its
\* response has been returned, and a commit that failed leaves the response
\* as it is; while a tool stores its answer in the cache, the answer has
\* been returned to the generation
C24_FireAndForget ==
  /\ req.commit = "pending" => req.status = 200
  /\ req.commit = "failed" => req.status = 200
  /\ req.tool = "store" => req.toolCalls \in req.answered

\* the semantic level was probed by the last lookup, and the store answered
SemanticProbed ==
  /\ redis
  /\ cacheOp.kind = "get"
  /\ ~cacheOp.down
  /\ \E n \in 1..Len(cacheResult.probed) : cacheResult.probed[n] = "semantic"

\* the similarity of the lookup's input to the entry stored under k
StoredSimilarity(k) == CosineSimilarity(Embedding(cacheOp.input), store[k].embedding)

\* the stored semantic entries that reach the threshold of the last lookup
Reaching ==
  {k \in SemanticKeys :
     /\ Present(store, k, cacheOp.at)
     /\ store[k].embedding # <<>>
     /\ SimGE(StoredSimilarity(k), SIMILARITY_MEDIUM)}

\* C25 as stated: a semantic lookup hits exactly when some stored semantic
\* entry reaches the threshold (>=), and the hit carries the entry of the
\* highest similarity among all of them
C25_SemanticBest ==
  SemanticProbed =>
    /\ (cacheResult.source = "semantic") <=> (Reaching # {})
    /\ (cacheResult.source = "semantic") =>
         \E k \in Reaching :
           /\ cacheResult.data = store[k].data
           /\ cacheResult.similarity = StoredSimilarity(k)
           /\ \A j \in Reaching : ~SimGT(StoredSimilarity(j), StoredSimilarity(k))

\* a store that writes the partial entry of a pattern and context is followed
\* by a lookup that may read it, before the entry expires
PartialStep ==
  /\ LookupStep
  /\ cacheOp.kind = "set"
  /\ cacheOp.api \in {"hier", "partial"}
  /\ cacheOp.pattern
  /\ cacheOp'.api \in {"hier", "partial"}
  /\ cacheOp'.pattern
  /\ cacheOp'.agent = cacheOp.agent
  /\ cacheOp'.at < cacheOp.at + TTL_PARTIAL_CONTEXT

\* the lookup of the step returns the stored value at the partial level
PartialHit ==
  /\ cacheResult'.hit
  /\ cacheResult'.source = "partial"
  /\ cacheResult'.data = [by |-> cacheOp.agent, for |-> cacheOp.input, at |-> cacheOp.at]

\* the last lookup probed the partial level
PartialProbed ==
  /\ cacheOp.kind = "get"
  /\ \E n \in 1..Len(cacheResult.probed) : cacheResult.probed[n] = "partial"

\* a partial lookup whose pattern and context have no entry misses
PartialMiss ==
  (PartialProbed /\ ~Present(store, PartialKey(cacheOp.agent), cacheOp.at))
    => ~cacheResult.hit

C27_EmbedMemoized ==
  embedded.n > 0 =>
    /\ embedded.vector = Embedding(embedded.text)
    /\ (embedded.memoized /\ embedded.fail # "get") => embedded.calls = 0
    /\ (~redis \/ embedded.fail = "get") => embedded.calls = 1
    /\ (embedded.fail = "setex" /\ ~embedded.memoized) => embedded.calls >= 1
    /\ ~embedded.memoized => embedded.calls >= 1

\* a repeated call for a text was answered from the memo, without a call of
\* the provider
C27_Witness ==
  /\ embedded.n > 1
  /\ embedded.memoized
  /\ embedded.calls = 0
  /\ embedded.vector = Embedding(embedded.text)

Families == {"hourly", "daily", "monthly"}

\* the lastReset stamp the ledger holds for a family, and the stamp of the
\* window of that family the clock is in
LastReset(led, f) ==
  CASE f = "hourly"  -> led.lastResetHourly
    [] f = "daily"   -> led.lastResetDaily
    [] f = "monthly" -> led.lastResetMonthly

WindowStamp(f, c) ==
  CASE f = "hourly"  -> HourStamp(c)
    [] f = "daily"   -> DayStamp(c)
    [] f = "monthly" -> MonthStamp(c)

\* the boundary of the window the ledger counts for family f has passed
BoundaryPassed(f) == StampGT(WindowStamp(f, clock), LastReset(ledger, f))

\* the step resets the ledger's counter of family f
LedgerReset(f) ==
  \/ ledger'[f] < ledger[f]
  \/ LastReset(ledger', f) # LastReset(ledger, f)

\* the step is a call of checkCostLimits or recordCost on a stored ledger
LedgerCallStep ==
  /\ redis
  /\ ledger # NoData
  /\ clock' = clock
  /\ costResult' # costResult \/ records' # records

\* the step resets the in-memory record of tier t
LimiterReset(t) ==
  \/ limiter'[t].count < limiter[t].count
  \/ limiter'[t].resetAt # limiter[t].resetAt

\* C28: a counter of the cost ledger or of an in-memory limiter is reset only
\* by a call made after the boundary of its own window has passed, and the
\* first such call resets it; the passing of time alone changes no counter,
\* and a window whose boundary has not passed keeps its counter when another
\* window is reset
C28_LazyReset ==
  /\ [][(ledger # NoData /\ ledger' # NoData) =>
          \A f \in Families :
            LedgerReset(f) => (clock' = clock /\ BoundaryPassed(f))]_vars
  /\ [][LedgerCallStep =>
          \A f \in Families :
            BoundaryPassed(f) =>
              /\ LastReset(ledger', f) = WindowStamp(f, clock)
              /\ ledger'[f] = ledger'.monthly - ledger.monthly]_vars
  /\ [][clock' # clock => (ledger' = ledger /\ limiter' = limiter)]_vars
  /\ [][\A t \in Tiers :
          (limiter[t] # NoRec /\ limiter'[t] # NoRec) =>
            /\ LimiterReset(t) => (clock' = clock /\ Expired(limiter[t], clock))
            /\ (limiter' # limiter /\ Expired(limiter[t], clock))
                 => limiter'[t].count = 1]_vars

\* the hourly counter has been reset after its boundary passed while the
\* daily counter, whose boundary has not passed, kept its amount
C28_Witness ==
  /\ ledger # NoData
  /\ clock.hr = 1
  /\ ledger.lastResetHourly = HourStamp(clock)
  /\ ledger.hourly = 0
  /\ ledger.daily > 0
  /\ ledger.lastResetDaily = DayStamp(clock)

\* the windows of the documentation, in milliseconds: a minute, an hour, a day
DocumentedMs(t) ==
  CASE t = "basic" -> 60000
    [] t = "burst" -> 3600000
    [] t = "daily" -> 86400000

\* an instant in milliseconds since the start of the month
InstantMs(at) == ((at[1] * 30 + at[2]) * 24 + at[3]) * 3600000 + at[4]

\* the step replaces the in-memory record of tier t by that of a new window
WindowReopens(t) ==
  /\ limiter[t] # NoRec
  /\ limiter'[t] # NoRec
  /\ limiter'[t].resetAt # limiter[t].resetAt

\* C29 as stated, for the in-memory limiters: the window of a tier is not
\* reset before 60 s (per-minute), 3600 s (hourly) and 86400 s (daily) have
\* elapsed since it opened, so a new window of a tier opens no sooner than
\* that after the one before it
C29_DocumentedWindows ==
  [][\A t \in Tiers :
       WindowReopens(t) =>
         InstantMs(limiter'[t].resetAt) - InstantMs(limiter[t].resetAt)
           >= DocumentedMs(t)]_vars

\* the tiers whose LimitResult has the fewest remaining requests
Tightest(r) == {t \in Tiers : \A u \in Tiers : r[t].remaining <= r[u].remaining}

\* the rate-limit state a response exposes is that of tier t
QuotaOf(t) ==
  /\ req.quota.limit = req.tiers[t].limit
  /\ req.quota.remaining = req.tiers[t].remaining
  /\ req.quota.reset = req.tiers[t].reset
  /\ req.quota.tier = t

\* C30 as stated: the RateLimit-Limit / Remaining / Reset headers and the
\* reported tier are those of the rejecting tier on a rate-limit rejection,
\* and on an admitted request those of a tier with the fewest remaining
\* requests
C30_TightestFamilyHeaders ==
  req.quota # NoQuota =>
    IF "X-RateLimit-Message" \in req.headers
      THEN QuotaOf(FirstIn(<<"basic", "burst", "daily">>,
                           [t \in Tiers |-> ~req.tiers[t].success]))
    ELSE \E t \in Tightest(req.tiers) : QuotaOf(t)

\* the step in which a tool begins its generateText call
GenerationBegins == req.tool # "generate" /\ req'.tool = "generate"

\* C31 as stated: each generative sub-call of a request is submitted to a
\* pool of the concurrency gate: the step that begins a tool's generation is
\* a submission to a pool
C31_SubCallsGated ==
  [][GenerationBegins => submitted' = submitted + 1]_vars

\* C32 as stated: every submission to a pool gets its QueueResult in the
\* end, whatever submissions, shutdowns and kills happen meanwhile: no
\* submission is ever left with a push promise that cannot resolve
C32_EveryCallReturns ==
  \A p \in Pools : qLost[p] = 0

\* C33 as stated: a value a hierarchical lookup returns for an agent type
\* was stored under that agent type
C33_ContextIsolation ==
  (cacheOp.kind = "get" /\ cacheOp.api = "hier" /\ cacheResult.hit)
    => cacheResult.data.by = cacheOp.agent

\* the cost step of performSecurityCheck returns for the request of p: a
\* request that is let through goes on to the handler, keeping its estimate
CostCheckDecides(p) ==
  /\ pc[p] = "check_decide"
  /\ costResult' = CostLimitResult(costData[p], amount[p])
  /\ pc' = [pc EXCEPT ![p] = IF costResult'.allowed THEN "admitted" ELSE "idle"]
  /\ costData' = [costData EXCEPT ![p] = NoData]
  /\ amount' = [amount EXCEPT ![p] = IF costResult'.allowed THEN @ ELSE 0]
  /\ UNCHANGED <<ledger, recorded, committed, records, dirty>>
  /\ UNCHANGED notCost

\* POST calls recordCost(clientId, estimate) for the request it let through;
\* without a store recordCost returns at once
PostRecordsCost(p) ==
  /\ pc[p] = "admitted"
  /\ records < MaxRecords
  /\ records' = records + 1
  /\ pc' = [pc EXCEPT ![p] = IF redis THEN "record_read" ELSE "idle"]
  /\ amount' = [amount EXCEPT ![p] = IF redis THEN @ ELSE 0]
  /\ UNCHANGED <<ledger, costData, costResult, recorded, committed, dirty>>
  /\ UNCHANGED notCost

\* two concurrent requests of one client, each checked and then recorded
NextBudget ==
  \/ \E p \in Procs : CallCheckCostLimits(p, 1)
  \/ \E p \in Procs : ReadCostData(p)
  \/ \E p \in Procs : ResetCostData(p)
  \/ \E p \in Procs : CostCheckDecides(p)
  \/ \E p \in Procs : PostRecordsCost(p)
  \/ \E p \in Procs : WriteCost(p)
  \/ TickHour

SpecBudget == Init /\ [][NextBudget]_vars

\* C34 as stated: whatever the interleaving of a client's concurrent
\* requests, the usage the ledger holds for a window is within the window's
\* limit, and a request is committed only when the usage at that moment plus
\* its amount is within the limit
C34_WithinBudget ==
  /\ Usage.hourly <= DEFAULT_HOURLY_LIMIT
  /\ Usage.daily <= DEFAULT_DAILY_LIMIT
  /\ Usage.monthly <= DEFAULT_MONTHLY_LIMIT

\* C35 as stated: a request checkMultiTierLimits rejects consumes no quota:
\* the per-minute, the hourly and the daily counter are after the call what
\* they were before it
C35_RejectionConsumesNothing ==
  [][~rateResult'.success => limiter' = limiter]_vars

MaxPassed == 3
MaxOverloadTasks == 12

\* performSecurityCheck, step 3, of one more request: areQueuesOverloaded()
\* is read; a request that finds no pool overloaded goes on to the awaits of
\* validation, rate limiting, cost check and moderation, a request that
\* finds one is answered and changes nothing
OverloadCheck ==
  /\ session.passed < MaxPassed
  /\ session' = IF AreQueuesOverloaded THEN session
                ELSE [session EXCEPT !.passed = @ + 1]
  /\ UNCHANGED <<redis, clock, queueVars, costVars, rateVars, cacheVars, req,
                 workerVars, shut>>

\* a request past its overload check is turned away by a later check
LaterCheckRejects ==
  /\ session.passed > 0
  /\ session' = [session EXCEPT !.passed = @ - 1]
  /\ UNCHANGED <<redis, clock, queueVars, costVars, rateVars, cacheVars, req,
                 workerVars, shut>>

\* POST of a request past all its checks: queueDecisionOperation
SubmitAfterCheck ==
  /\ session.passed > 0
  /\ submitted < MaxOverloadTasks
  /\ QueueOperationCore("decision")
  /\ session' = [session EXCEPT !.passed = @ - 1]
  /\ UNCHANGED <<redis, clock, costVars, rateVars, cacheVars, req, workerVars, shut>>

\* the requests of an instance between their overload checks and their
\* submissions to the decision pool
NextOverload ==
  \/ OverloadCheck
  \/ LaterCheckRejects
  \/ SubmitAfterCheck
  \/ \E o \in WorkerOutcomes : WorkerReturns("decision", o)
  \/ LateSettle("decision")

SpecOverload == Init /\ [][NextOverload]_vars

C37_TimeoutFreesCapacity ==
  \A p \in Pools : qRunning[p] + qZombies[p] <= Concurrency(p)

MaxLookupHits == 2

\* getCacheEntry(key) up to its second await: redis.get(key) and JSON.parse;
\* without a store and for a key the store does not hold it returns null
GetCacheEntryReads(k) ==
  /\ session.reading = NoEntry
  /\ store[k] # NoEntry => store[k].hits < MaxLookupHits
  /\ session' = IF redis /\ Present(store, k, Seconds(clock))
                  THEN [session EXCEPT !.reading = [key |-> k, entry |-> store[k]]]
                  ELSE session
  /\ UNCHANGED <<redis, clock, queueVars, costVars, rateVars, cacheVars, req,
                 workerVars, shut>>

\* getCacheEntry after redis.get: entry.hits++, setex(key, entry.ttl, entry)
\* with the entry it read, and the entry is returned; the catch returns null
\* when setex throws
GetCacheEntryWrites(down) ==
  /\ session.reading # NoEntry
  /\ LET k == session.reading.key
         e == [session.reading.entry EXCEPT !.hits = @ + 1]
     IN /\ store' = IF down THEN store
                    ELSE [store EXCEPT
                            ![k] = [e EXCEPT !.expiresAt = Seconds(clock) + e.ttl]]
        /\ cacheResult' = IF down
                            THEN [hit |-> FALSE, source |-> "miss", data |-> NoValue,
                                  similarity |-> NoSim, probed |-> <<k[1]>>]
                          ELSE [hit |-> TRUE, source |-> k[1], data |-> e.data,
                                similarity |-> IF k[1] = "exact" THEN FullSim ELSE NoSim,
                                probed |-> <<k[1]>>]
        /\ cacheOp' = CacheOp("get", k[1], Query(k[2], k[3], TRUE, {}, down))
  /\ session' = [session EXCEPT !.reading = NoEntry]
  /\ UNCHANGED <<cacheOps, others, memo, embedded>>
  /\ UNCHANGED <<redis, clock, queueVars, costVars, rateVars, req, workerVars, shut>>

\* a lookup of an exact or partial key, split at its awaits, among stores
NextLookup ==
  \/ \E l \in {"exact", "partial"}, i \in Inputs, a \in Agents :
       GetCacheEntryReads(LevelKey(l, i, a))
  \/ \E down \in BOOLEAN : GetCacheEntryWrites(down)
  \/ \E l \in Levels, i \in Inputs, a \in Agents, down \in BOOLEAN :
       SetLevelCache(l, i, a, down)
  \/ TickHour

SpecLookup == Init /\ [][NextLookup]_vars

\* the step in which a lookup writes the entry it read back
WriteBackStep ==
  session.reading # NoEntry /\ session'.reading = NoEntry

\* C38 as stated: the hit-count write-back of a lookup never overwrites a
\* newer value: the value the store holds under the key when the lookup
\* writes back is the value it holds afterwards
C38_WriteBackKeepsNewer ==
  [][(WriteBackStep /\ Present(store, session.reading.key, Seconds(clock)))
       => store'[session.reading.key].data = store[session.reading.key].data]_vars

\* a step of the request that reads the body: the cost step of
\* performSecurityCheck (req.clone().json()) or the handler's req.json()
BodyReadStep == req.pc \in {"cost", "parse"} /\ req' # req

\* C39 as stated: within one request the body is never read after it was
\* consumed; a request past validation and rate limiting has its cost
\* checked with the estimate of its text, and the handler then parses it
C39_BodyReadOnce ==
  [][/\ BodyReadStep => ~req.bodyUsed
     /\ (req.pc = "cost" /\ req' # req) => "cost" \in req'.called
     /\ (req.pc = "parse" /\ req' # req) => req'.pc = "moderate"]_vars

\* the status the security guide gives the rejections of a check
DocumentedStatus(check) ==
  IF check = "overload" THEN 503
  ELSE IF check \in {"rate_limit", "cost_limit"} THEN 429
  ELSE 400

\* C40 as stated: the status of a rejected request tells which check it
\* failed: 503 for overload, 429 for every rate-limit and every cost-limit
\* rejection, 400 for origin, user agent and validation
C40_StatusReflectsCheck ==
  SecurityRejected => req.status = DocumentedStatus(CheckOf(req.reason))

====
